---------------------------- MODULE Spec2Model ----------------------------
(***************************************************************************)
(* A model of scripts/add_electricity.py (PyPSA-Spain).                    *)
(*                                                                         *)
(* In the regional capacity reconciler (fun_update_elec_capacities) the    *)
(* capacities are Python floats, rounded after every operation as IEEE 754 *)
(* binary64 rounds them: the function compares int() truncations of sums   *)
(* and quotients, and a rounding error of one unit in the last place       *)
(* decides such a comparison.                                              *)
(*                                                                         *)
(* In the other components the real-valued quantities (loads, areas,       *)
(* weights, capacities) are exact rationals <<numerator, denominator>> in  *)
(* lowest terms with a positive denominator; there "equal" means equal as  *)
(* real numbers.                                                           *)
(***************************************************************************)
EXTENDS Integers, Sequences, FiniteSets, TLC

(***************************************************************************)
(* Bounds of the model.                                                    *)
(***************************************************************************)
MaxPNom == 2        \* initial p_nom of a generator: 0, 1/100, 1 .. MaxPNom
MaxPNomMax == 3     \* p_nom_max of a generator: 1 or MaxPNomMax
MaxCap == 3         \* first sample of a reported capacity series: 0 .. MaxCap

(***************************************************************************)
(* Exact rational arithmetic.                                              *)
(***************************************************************************)
Abs(x) == IF x < 0 THEN -x ELSE x

RECURSIVE GCD(_, _)
GCD(a, b) == IF b = 0 THEN a ELSE GCD(b, a % b)

Rat(n, d) ==
    LET g == GCD(Abs(n), Abs(d))
        s == IF d < 0 THEN -1 ELSE 1
    IN  <<(s * n) \div g, (s * d) \div g>>

Zero == <<0, 1>>
One == <<1, 1>>
RAdd(a, b) == Rat(a[1] * b[2] + b[1] * a[2], a[2] * b[2])
RSub(a, b) == Rat(a[1] * b[2] - b[1] * a[2], a[2] * b[2])
RMul(a, b) == Rat(a[1] * b[1], a[2] * b[2])
RDiv(a, b) == Rat(a[1] * b[2], a[2] * b[1])
RLt(a, b) == a[1] * b[2] < b[1] * a[2]
RLe(a, b) == a[1] * b[2] <= b[1] * a[2]

\* Python's int(x) on a float: truncation toward zero.
RInt(a) == IF a[1] >= 0 THEN a[1] \div a[2] ELSE -((-a[1]) \div a[2])

\* pandas Series.sum()
RECURSIVE RSum(_)
RSum(s) == IF s = <<>> THEN Zero ELSE RAdd(Head(s), RSum(Tail(s)))

(***************************************************************************)
(* Python floats (IEEE 754 binary64, round to nearest, ties to even), as   *)
(* fun_update_elec_capacities computes with them.                          *)
(*                                                                         *)
(* A finite float is a record [cls |-> "finite", neg, man, exp] whose      *)
(* value is (-1)^neg * man * 2^exp exactly: man is a natural number of at  *)
(* most 53 bits, odd unless the float is a zero (then man = 0 and          *)
(* exp = 0), and exp >= -1074.  The infinities have cls = "inf" and the    *)
(* not-a-number has cls = "nan".  Every float has one record, so two       *)
(* floats are the same float iff their records are equal; 0.0 and -0.0 are *)
(* two floats that compare equal (FEq).                                    *)
(*                                                                         *)
(* A natural number is the sequence of its digits in base 2^15, the lowest *)
(* digit first and the highest digit not 0 (0 is the empty sequence), so   *)
(* that no intermediate value exceeds 32 bits.  An operation computes the  *)
(* exact result of its operands as such a number and rounds it to 53 bits  *)
(* (fewer below 2^-1022, where floats are 2^-1074 apart).                  *)
(***************************************************************************)
Base == 2^15
Big == Seq(0..(Base - 1))

\* Digit i of a, counted from 1 at the low end.
Limb(a, i) == IF i <= Len(a) THEN a[i] ELSE 0

\* a without its leading zero digits.
BNorm[a \in Big] ==
    IF Len(a) > 0 /\ a[Len(a)] = 0 THEN BNorm[SubSeq(a, 1, Len(a) - 1)] ELSE a

\* -1, 0 or 1 as a < b, a = b or a > b.
BCmpFrom[a \in Big, b \in Big, i \in Nat] ==
    IF i = 0 THEN 0
    ELSE IF a[i] < b[i] THEN -1
    ELSE IF a[i] > b[i] THEN 1
    ELSE BCmpFrom[a, b, i - 1]
BCmp(a, b) ==
    IF Len(a) < Len(b) THEN -1
    ELSE IF Len(a) > Len(b) THEN 1
    ELSE BCmpFrom[a, b, Len(a)]

\* a + b
BAddFrom[a \in Big, b \in Big, i \in Nat, carry \in Nat, acc \in Big] ==
    IF i > Len(a) /\ i > Len(b)
    THEN IF carry = 0 THEN acc ELSE Append(acc, carry)
    ELSE BAddFrom[a, b, i + 1, (Limb(a, i) + Limb(b, i) + carry) \div Base,
                  Append(acc, (Limb(a, i) + Limb(b, i) + carry) % Base)]
BAdd(a, b) == BAddFrom[a, b, 1, 0, <<>>]

\* a - b, for a >= b
BSubFrom[a \in Big, b \in Big, i \in Nat, borrow \in Nat, acc \in Big] ==
    IF i > Len(a) THEN BNorm[acc]
    ELSE BSubFrom[a, b, i + 1, IF a[i] - Limb(b, i) - borrow < 0 THEN 1 ELSE 0,
                  Append(acc, (a[i] - Limb(b, i) - borrow + Base) % Base)]
BSub(a, b) == BSubFrom[a, b, 1, 0, <<>>]

\* a * q for one digit q
BMulSmallFrom[a \in Big, q \in Nat, i \in Nat, carry \in Nat, acc \in Big] ==
    IF i > Len(a)
    THEN IF carry = 0 THEN acc ELSE Append(acc, carry)
    ELSE BMulSmallFrom[a, q, i + 1, (a[i] * q + carry) \div Base,
                       Append(acc, (a[i] * q + carry) % Base)]
BMulSmall(a, q) == IF q = 0 THEN <<>> ELSE BMulSmallFrom[a, q, 1, 0, <<>>]

\* a * b
Zeros(n) == [i \in 1..n |-> 0]
BMulFrom[a \in Big, b \in Big, i \in Nat, acc \in Big] ==
    IF i > Len(b) THEN BNorm[acc]
    ELSE BMulFrom[a, b, i + 1, BAdd(acc, Zeros(i - 1) \o BMulSmall(a, b[i]))]
BMul(a, b) == BMulFrom[a, b, 1, <<>>]

\* a * 2^s and the whole part of a / 2^s
BShl[a \in Big, s \in Nat] ==
    IF Len(a) = 0 \/ s = 0 THEN a ELSE Zeros(s \div 15) \o BMulSmall(a, 2^(s % 15))
BShr[a \in Big, s \in Nat] ==
    IF s = 0 THEN a
    ELSE IF s \div 15 >= Len(a) THEN <<>>
    ELSE BNorm[[i \in 1..(Len(a) - s \div 15) |->
                  (Limb(a, i + s \div 15) \div 2^(s % 15))
                   + (Limb(a, i + s \div 15 + 1) % 2^(s % 15)) * 2^(15 - (s % 15))]]

\* The number of bits of a (0 for 0), bit k of a counted from 0 at the low end,
\* whether the bits of a below bit k are all 0, and the number of zero bits at
\* the low end of a > 0 from digit i on.
LimbBits(v) ==
    IF v < 256
    THEN (IF v < 16
          THEN (IF v < 4 THEN (IF v < 1 THEN 0 ELSE IF v < 2 THEN 1 ELSE 2)
                ELSE (IF v < 8 THEN 3 ELSE 4))
          ELSE (IF v < 64 THEN (IF v < 32 THEN 5 ELSE 6)
                ELSE (IF v < 128 THEN 7 ELSE 8)))
    ELSE (IF v < 4096
          THEN (IF v < 1024 THEN (IF v < 512 THEN 9 ELSE 10)
                ELSE (IF v < 2048 THEN 11 ELSE 12))
          ELSE (IF v < 16384 THEN (IF v < 8192 THEN 13 ELSE 14) ELSE 15))
BBitLen(a) == IF Len(a) = 0 THEN 0 ELSE 15 * (Len(a) - 1) + LimbBits(a[Len(a)])
BBit(a, k) == (Limb(a, k \div 15 + 1) \div 2^(k % 15)) % 2
BLowZero(a, k) ==
    /\ \A i \in 1..(k \div 15) : Limb(a, i) = 0
    /\ Limb(a, k \div 15 + 1) % 2^(k % 15) = 0
LimbTrailing[v \in Nat] == IF v % 2 = 1 THEN 0 ELSE 1 + LimbTrailing[v \div 2]
BTrailing[a \in Big, i \in Nat] ==
    IF a[i] = 0 THEN 15 + BTrailing[a, i + 1] ELSE LimbTrailing[a[i]]

\* A natural number of the model as a number of digits and back.
BFromInt[v \in Nat] == IF v = 0 THEN <<>> ELSE <<v % Base>> \o BFromInt[v \div Base]
BToInt[a \in Big] == IF Len(a) = 0 THEN 0 ELSE a[1] + Base * BToInt[Tail(a)]

\* <<quotient, remainder>> of n by d, for a d whose highest digit is at least
\* 2^14: long division, one digit of n at a time from the high end.  The digit
\* of the quotient is estimated from the two highest digits of the running
\* remainder r and the highest digit of d, which never gives too little, and
\* is lowered until its product with d fits in r.
Digit[r \in Big, d \in Big, qhat \in Nat] ==
    IF BCmp(BMulSmall(d, qhat), r) > 0 THEN Digit[r, d, qhat - 1] ELSE qhat
OneDigit(v) == IF v > Base - 1 THEN Base - 1 ELSE v
Estimate(r, d) ==
    IF Len(r) < Len(d) THEN 0
    ELSE OneDigit((Limb(r, Len(d) + 1) * Base + r[Len(d)]) \div d[Len(d)])
RECURSIVE BDivStep(_, _, _, _, _)
BDivFrom[n \in Big, d \in Big, i \in Nat, rem \in Big, q \in Big] ==
    IF i = 0 THEN <<BNorm[q], rem>>
    ELSE BDivStep(n, d, i, BNorm[<<n[i]>> \o rem], q)
BDivDigit(n, d, i, r, digit, q) ==
    IF digit = 0 THEN BDivFrom[n, d, i - 1, r, <<0>> \o q]
    ELSE BDivFrom[n, d, i - 1, BSub(r, BMulSmall(d, digit)), <<digit>> \o q]
BDivStep(n, d, i, r, q) == BDivDigit(n, d, i, r, Digit[r, d, Estimate(r, d)], q)
BDivMod(n, d) == BDivFrom[n, d, Len(n), <<>>, <<>>]

\* The floats.
Finite(neg, man, exp) == [cls |-> "finite", neg |-> neg, man |-> man, exp |-> exp]
FInf(neg) == [cls |-> "inf", neg |-> neg, man |-> <<>>, exp |-> 0]
FNaN == [cls |-> "nan", neg |-> FALSE, man |-> <<>>, exp |-> 0]
FZero == Finite(FALSE, <<>>, 0)
IsZero(x) == x.cls = "finite" /\ Len(x.man) = 0
Floats == [cls : {"finite", "inf", "nan"}, neg : BOOLEAN, man : Big, exp : Int]

\* The float of value (-1)^neg * man * 2^exp, for a man of at most 54 bits (53,
\* or 2^53 after a rounding upward) and an exp >= -1074: man made odd, and
\* infinity from 2^1024 on.
Lowest(neg, man, exp, tz) == Finite(neg, BShr[man, tz], exp + tz)
Ranged(neg, man, exp) ==
    IF Len(man) = 0 THEN Finite(neg, <<>>, 0)
    ELSE IF exp > 1024 - 54 /\ BBitLen(man) + exp > 1024 THEN FInf(neg)
    ELSE Lowest(neg, man, exp, BTrailing[man, 1])

\* The float nearest to (-1)^neg * man * 2^exp: the s bits of man that do not
\* fit are dropped, and one is added in the last place kept when the dropped
\* bits are more than half of it, or half of it and the last bit kept is 1.
RoundAt(neg, man, exp, s) ==
    IF s <= 0 THEN Ranged(neg, man, exp)
    ELSE IF BBit(man, s - 1) = 1 /\ (~BLowZero(man, s - 1) \/ BBit(man, s) = 1)
    THEN Ranged(neg, BAdd(BShr[man, s], <<1>>), exp + s)
    ELSE Ranged(neg, BShr[man, s], exp + s)
Higher(e, f) == IF e > f THEN e ELSE f
Round[neg \in BOOLEAN, man \in Big, exp \in Int] ==
    RoundAt(neg, man, exp, Higher(BBitLen(man) - 53, -1074 - exp))

\* A finite float x lies in 2^(Top(x)-1) <= |x| < 2^Top(x); Aligned(x, e) is
\* |x| in units of 2^e, for e <= x.exp.
Top(x) == x.exp + BBitLen(x.man)
Aligned(x, e) == BShl[x.man, x.exp - e]
Lower(e, f) == IF e < f THEN e ELSE f

\* x + y
AddCompared(xneg, a, yneg, b, e, cmp) ==
    IF cmp > 0 THEN Round[xneg, BSub(a, b), e]
    ELSE IF cmp < 0 THEN Round[yneg, BSub(b, a), e]
    ELSE FZero
AddAligned(xneg, a, yneg, b, e) ==
    IF xneg = yneg THEN Round[xneg, BAdd(a, b), e]
    ELSE AddCompared(xneg, a, yneg, b, e, BCmp(a, b))
AddNear(x, y, e) == AddAligned(x.neg, Aligned(x, e), y.neg, Aligned(y, e), e)
\* An operand below 2^-56 of the other is less than a quarter of the distance
\* from the other to the next float on either side.
AddApart(x, y, apart) ==
    IF apart >= 56 THEN x
    ELSE IF apart <= -56 THEN y
    ELSE AddNear(x, y, Lower(x.exp, y.exp))
AddFinite[x \in Floats, y \in Floats] ==
    IF Len(x.man) = 0 THEN (IF Len(y.man) = 0 THEN Finite(x.neg /\ y.neg, <<>>, 0) ELSE y)
    ELSE IF Len(y.man) = 0 THEN x
    ELSE AddApart(x, y, Top(x) - Top(y))
FAdd(x, y) ==
    IF x.cls = "nan" \/ y.cls = "nan" THEN FNaN
    ELSE IF x.cls = "inf" THEN (IF y.cls = "inf" /\ y.neg # x.neg THEN FNaN ELSE x)
    ELSE IF y.cls = "inf" THEN y
    ELSE AddFinite[x, y]

\* -x, x - y
FNeg(x) == IF x.cls = "nan" THEN x ELSE [x EXCEPT !.neg = ~@]
FSub(x, y) == FAdd(x, FNeg(y))

\* x * y
MulFinite[x \in Floats, y \in Floats] ==
    Round[x.neg # y.neg, BMul(x.man, y.man), x.exp + y.exp]
FMul(x, y) ==
    IF x.cls = "nan" \/ y.cls = "nan" THEN FNaN
    ELSE IF x.cls = "inf" \/ y.cls = "inf"
    THEN (IF IsZero(x) \/ IsZero(y) THEN FNaN ELSE FInf(x.neg # y.neg))
    ELSE MulFinite[x, y]

\* x / y, a division by zero giving what numpy gives for float64 (an infinity,
\* or not-a-number for 0/0).  The quotient of the finite operands is taken to
\* 56 bits or more (|x| * 2^k by |y|, both times 2^t for the long division),
\* with one more bit at the low end that tells whether a remainder is left.
DivRounded(neg, qr, exp) ==
    Round[neg, BAdd(BShl[qr[1], 1], IF Len(qr[2]) = 0 THEN <<>> ELSE <<1>>), exp - 1]
DivShifted(x, y, k, t) ==
    DivRounded(x.neg # y.neg, BDivMod(BShl[x.man, k + t], BShl[y.man, t]),
               x.exp - y.exp - k)
DivFinite[x \in Floats, y \in Floats] ==
    IF y.man = <<1>> THEN Round[x.neg # y.neg, x.man, x.exp - y.exp]
    ELSE DivShifted(x, y, Higher(56 + BBitLen(y.man) - BBitLen(x.man), 0),
                    15 - LimbBits(y.man[Len(y.man)]))
FDiv(x, y) ==
    IF x.cls = "nan" \/ y.cls = "nan" THEN FNaN
    ELSE IF x.cls = "inf" THEN (IF y.cls = "inf" THEN FNaN ELSE FInf(x.neg # y.neg))
    ELSE IF y.cls = "inf" THEN Finite(x.neg # y.neg, <<>>, 0)
    ELSE IF IsZero(y) THEN (IF IsZero(x) THEN FNaN ELSE FInf(x.neg # y.neg))
    ELSE IF IsZero(x) THEN Finite(x.neg # y.neg, <<>>, 0)
    ELSE DivFinite[x, y]

\* x < y, x <= y, x == y: false when an operand is not a number.
Sign(x) == IF IsZero(x) THEN 0 ELSE IF x.neg THEN -1 ELSE 1
CmpNear(x, y, e) == BCmp(Aligned(x, e), Aligned(y, e))
CmpApart(x, y, apart) ==
    IF apart < 0 THEN -1
    ELSE IF apart > 0 THEN 1
    ELSE CmpNear(x, y, Lower(x.exp, y.exp))
CmpMag(x, y) ==
    IF x.cls = "inf" THEN (IF y.cls = "inf" THEN 0 ELSE 1)
    ELSE IF y.cls = "inf" THEN -1
    ELSE CmpApart(x, y, Top(x) - Top(y))
CmpSigns(x, y, sx, sy) ==
    IF sx < sy THEN -1
    ELSE IF sx > sy THEN 1
    ELSE IF sx = 0 THEN 0
    ELSE sx * CmpMag(x, y)
FCmp[x \in Floats, y \in Floats] == CmpSigns(x, y, Sign(x), Sign(y))
Ordered(x, y) == x.cls # "nan" /\ y.cls # "nan"
FLt(x, y) == Ordered(x, y) /\ FCmp[x, y] < 0
FLe(x, y) == Ordered(x, y) /\ FCmp[x, y] <= 0
FEq(x, y) == Ordered(x, y) /\ FCmp[x, y] = 0

\* int(x) of a finite x: truncation toward zero.
Truncated[x \in Floats] ==
    (IF x.neg THEN -1 ELSE 1)
     * (IF x.exp >= 0 THEN BToInt[BShl[x.man, x.exp]] ELSE BToInt[BShr[x.man, -x.exp]])
FInt(x) == Truncated[x]

\* float(n/d): the float a decimal literal or a value read from a file has.
\* The integers n and d are floats as they stand, and the quotient of two
\* floats is the float nearest to the quotient of their values.
FromInt(n) == Round[n < 0, BFromInt[IF n < 0 THEN -n ELSE n], 0]
FloatOf(n, d) == IF d = 1 THEN FromInt(n) ELSE FDiv(FromInt(n), FromInt(d))

\* pandas Series.sum(): the values added one by one, in order, from 0.0.
RECURSIVE FSumFrom(_, _)
FSumFrom(s, acc) == IF s = <<>> THEN acc ELSE FSumFrom(Tail(s), FAdd(acc, Head(s)))
FSum(s) == FSumFrom(s, FZero)

\* pandas Series.mean() of a non-empty series.
FMean(s) == FDiv(FSum(s), FloatOf(Len(s), 1))

(***************************************************************************)
(* The state.  Each component has its own variables and its own            *)
(* specification; the variables of the other components stay idle.         *)
(***************************************************************************)
VARIABLES
    \* fun_update_elec_capacities and the end of main
    generators,               \* n.generators: the generator table, in table order
    method_increase,          \* update_elec_capacities['method_increase']
    pc,                       \* where control is in main / fun_update_elec_capacities
    k,                        \* number of (carrier, column) pairs the loops have taken
    df_installed_capacity,    \* the column df_installed_capacity[rr] of the current pair
    df_generators_local_cc,   \* the candidates: a copy of their rows taken at selection
    df_updated,               \* the candidates being reconciled
    df_to_sanitise,           \* the adjustable candidates
    required_capacity,        \* the local required_capacity
    n_iter,                   \* iterations of the overflow repair loop for this pair
    printed,                  \* messages printed while processing the current pair
    \* shapes_to_shapes
    orig,                     \* the polygons passed as orig
    dest,                     \* the polygons passed as dest
    transfer,                 \* the matrix returned, transfer[i][j]
    \* attach_load and attach_load_vPyPSA_Spain
    enable,                   \* electricity_demand['enable']: the regional mode
    update_gdp_pop,           \* snakemake.params.update_gdp_pop
    scaling,                  \* params.scaling_factor
    bus_country,              \* gdf_regions.country, per demand bus
    nuts3,                    \* the NUTS3 table: index, country, geometry, gdp, pop
    gdp_pop_non_nuts3,        \* the per-bus table used for UA and MD
    opsd_load,                \* the load table: column |-> series
    lpc,                      \* where control is in attach_load*
    gi,                       \* number of country groups upsample has finished
    ci,                       \* number of load columns the current group has taken
    load,                     \* upsample's load: the series being disaggregated
    gdp_n,                    \* upsample's gdp_n in its latest call (<<>>: none computed)
    pop_n,                    \* upsample's pop_n of the last factors computed
    factors,                  \* the last factors computed: <<bus, factor>> in order
    return_rr,                \* the last frame built from factors and one series
    return_total,             \* regional mode: the frame accumulated for the group
    frames,                   \* the frames upsample has returned, in group order
    p_set,                    \* n.loads_t.p_set after n.madd("Load", ...)
    \* attach_hydro
    ppl,                      \* the hydro plants: technology, country, p_nom, max_hours
    carriers,                 \* the carriers argument
    inflow,                   \* the inflow profile: country |-> series
    hydro_max_hours,          \* params['hydro_max_hours']: the estimator selected
    hydro_stats,              \* hydro_capacities: country |-> E_store, p_nom_discharge
    hpc,                      \* where control is in attach_hydro
    dist_key,                 \* plant |-> share of its country's inflow
    inflow_t,                 \* plant |-> inflow series
    ror_generators,           \* the generators added with carrier ror, by plant
    storage_units,            \* the storage units added (PHS, hydro), by plant
    warnings,                 \* the countries named by the max_hours warning
    \* estimate_renewable_capacities
    n_generators,             \* n.generators with country and mean p_max_pu, in table order
    capacities,               \* reported capacity: technology |-> country |-> MW
    countries,                \* the countries argument
    expansion_limit,          \* the expansion_limit argument (0: disabled)
    epc,                      \* where control is in estimate_renewable_capacities
    ti,                       \* number of tech_map items the loop has taken
    \* __main__
    config,                   \* the switches of the configuration main reads
    mpc,                      \* where control is in main
    calls,                    \* the components main has called, in call order
    raised,                   \* a component has raised (or exited)
    exports,                  \* number of calls of n.export_to_netcdf
    \* add_transmission_projects
    transmission_projects,    \* the project files: name and table read, in list order
    buses,                    \* n.buses: name |-> attributes
    lines,                    \* n.lines: name |-> attributes
    links,                    \* n.links: name |-> attributes
    tpc,                      \* where control is in add_transmission_projects
    path_i                    \* number of files the for loop has taken

reconcilerVars == <<generators, method_increase, pc, k, df_installed_capacity,
                    df_generators_local_cc, df_updated, df_to_sanitise,
                    required_capacity, n_iter, printed>>
transferVars == <<orig, dest, transfer>>
loadVars == <<enable, update_gdp_pop, scaling, bus_country, nuts3, gdp_pop_non_nuts3,
              opsd_load, lpc, gi, ci, load, gdp_n, pop_n, factors, return_rr, return_total,
              frames, p_set>>
hydroVars == <<ppl, carriers, inflow, hydro_max_hours, hydro_stats, hpc, dist_key,
               inflow_t, ror_generators, storage_units, warnings>>
estimateVars == <<n_generators, capacities, countries, expansion_limit, epc, ti>>
mainVars == <<config, mpc, calls, raised, exports>>
projectsVars == <<transmission_projects, buses, lines, links, tpc, path_i>>
vars == <<reconcilerVars, transferVars, loadVars, hydroVars, estimateVars, mainVars,
          projectsVars>>

\* The variables of the components other than the one an action belongs to.
otherThanReconciler ==
    <<transferVars, loadVars, hydroVars, estimateVars, mainVars, projectsVars>>
otherThanTransfer ==
    <<reconcilerVars, loadVars, hydroVars, estimateVars, mainVars, projectsVars>>
otherThanLoad ==
    <<reconcilerVars, transferVars, hydroVars, estimateVars, mainVars, projectsVars>>
otherThanHydro ==
    <<reconcilerVars, transferVars, loadVars, estimateVars, mainVars, projectsVars>>
otherThanEstimate ==
    <<reconcilerVars, transferVars, loadVars, hydroVars, mainVars, projectsVars>>
otherThanMain ==
    <<reconcilerVars, transferVars, loadVars, hydroVars, estimateVars, projectsVars>>
otherThanProjects ==
    <<reconcilerVars, transferVars, loadVars, hydroVars, estimateVars, mainVars>>

\* The values of a component's variables while another component is modelled.
IdleReconciler ==
    /\ generators = <<>> /\ method_increase = "" /\ pc = "idle" /\ k = 0
    /\ df_installed_capacity = <<>> /\ df_generators_local_cc = <<>>
    /\ df_updated = <<>> /\ df_to_sanitise = <<>> /\ required_capacity = FZero
    /\ n_iter = 0 /\ printed = {}
IdleTransfer == orig = <<>> /\ dest = <<>> /\ transfer = <<>>
IdleLoad ==
    /\ enable = FALSE /\ update_gdp_pop = FALSE /\ scaling = <<1, 1>>
    /\ bus_country = <<>> /\ nuts3 = <<>> /\ gdp_pop_non_nuts3 = <<>>
    /\ opsd_load = <<>> /\ lpc = "idle" /\ gi = 0 /\ ci = 0
    /\ load = <<>> /\ gdp_n = <<>> /\ pop_n = <<>> /\ factors = <<>> /\ return_rr = <<>>
    /\ return_total = <<>> /\ frames = <<>> /\ p_set = <<>>
IdleHydro ==
    /\ ppl = <<>> /\ carriers = {} /\ inflow = <<>> /\ hydro_max_hours = ""
    /\ hydro_stats = <<>> /\ hpc = "idle" /\ dist_key = <<>> /\ inflow_t = <<>>
    /\ ror_generators = <<>> /\ storage_units = <<>> /\ warnings = {}
IdleEstimate ==
    /\ n_generators = <<>> /\ capacities = <<>> /\ countries = <<>>
    /\ expansion_limit = <<0, 1>> /\ epc = "idle" /\ ti = 0
IdleMain ==
    /\ config = <<>> /\ mpc = "idle" /\ calls = <<>> /\ raised = FALSE /\ exports = 0
IdleProjects ==
    /\ transmission_projects = <<>> /\ buses = <<>> /\ lines = <<>> /\ links = <<>>
    /\ tpc = "idle" /\ path_i = 0
IdleOthers(component) ==
    /\ IF component = "reconciler" THEN TRUE ELSE IdleReconciler
    /\ IF component = "transfer" THEN TRUE ELSE IdleTransfer
    /\ IF component = "load" THEN TRUE ELSE IdleLoad
    /\ IF component = "hydro" THEN TRUE ELSE IdleHydro
    /\ IF component = "estimate" THEN TRUE ELSE IdleEstimate
    /\ IF component = "main" THEN TRUE ELSE IdleMain
    /\ IF component = "projects" THEN TRUE ELSE IdleProjects

(***************************************************************************)
(* Regional capacity reconciler: fun_update_elec_capacities.               *)
(***************************************************************************)
\* carriers_to_update (dict order) and the columns of every capacity file.
\* 'total' is a column that is no region of dic_NUTS2.
carriers_to_update == <<"wind", "solar">>
Columns == <<"total", "R1", "R2">>
dic_nuts2 == {"R1", "R2"}

\* The pairs (cc, rr) in the order the two nested for-loops visit them.
Pairs ==
    [i \in 1..(Len(carriers_to_update) * Len(Columns)) |->
        <<carriers_to_update[((i - 1) \div Len(Columns)) + 1],
          Columns[((i - 1) % Len(Columns)) + 1]>>]

\* gpd.sjoin(gdf_buses, gdf_region, predicate="within"): the region a bus lies in.
BusRegion ==
    [b \in {"b1", "b2", "b3", "b4"} |->
        CASE b \in {"b1", "b2"} -> "R1"
          [] b = "b3" -> "R2"
          [] OTHER -> "none"]

\* Where the generators of the table sit (bus, carrier), in table order.
GenLayouts ==
    { << <<"b1", "solar">>, <<"b2", "solar">>, <<"b2", "solar">> >>,
      << <<"b1", "solar">>, <<"b3", "wind">> >>,
      << <<"b4", "solar">>, <<"b2", "wind">>, <<"b3", "solar">> >> }

PNomValues == {FZero, FloatOf(1, 100)} \cup {FloatOf(v, 1) : v \in 1..MaxPNom}
PNomMaxValues == {FloatOf(1, 1), FloatOf(MaxPNomMax, 1)}

Gen(b, c, p, m) == [bus |-> b, carrier |-> c, p_nom |-> p, p_nom_min |-> p, p_nom_max |-> m]

\* The example of the specification: three solar generators in one region with
\* (p_nom, p_nom_max) = (10,50), (10,20), (10,15).
ExampleGenerators ==
    << Gen("b1", "solar", FloatOf(10, 1), FloatOf(50, 1)),
       Gen("b2", "solar", FloatOf(10, 1), FloatOf(20, 1)),
       Gen("b2", "solar", FloatOf(10, 1), FloatOf(15, 1)) >>
ExampleSeries == {<<61, 61>>, <<60, 60>>}

\* The reported capacity series a file can hold for one column: two timestamps,
\* flat or rising by one, so that the mean is a whole number or a half.
SeriesValues ==
    {<<a, a>> : a \in 0..MaxCap} \cup {<<a, a + 1>> : a \in 0..MaxCap}

ToFloat(s) == [i \in 1..Len(s) |-> FloatOf(s[i], 1)]

NoLocals ==
    /\ df_installed_capacity = <<>>
    /\ df_generators_local_cc = <<>>
    /\ df_updated = <<>>
    /\ df_to_sanitise = <<>>
    /\ required_capacity = FZero
    /\ n_iter = 0
    /\ printed = {}

InitReconciler ==
    /\ \/ \E lay \in GenLayouts :
          \E p \in [1..Len(lay) -> PNomValues], m \in [1..Len(lay) -> PNomMaxValues] :
             generators = [i \in 1..Len(lay) |-> Gen(lay[i][1], lay[i][2], p[i], m[i])]
       \/ generators = ExampleGenerators
    /\ method_increase \in {"additional", "proportional"}
    /\ pc = "for"
    /\ k = 0
    /\ NoLocals
    /\ IdleOthers("reconciler")

\* A column of a table, and a table with its p_nom column replaced.
Col(df, c) == [i \in 1..Len(df) |-> df[i][c]]
SetPNom(df, p) == [i \in 1..Len(df) |-> [df[i] EXCEPT !.p_nom = p[i]]]
Names(df) == {df[i].name : i \in 1..Len(df)}

\* A plausible slip in the increase branch: the factor inverted.
IncreaseCapacityInverted(df, required, method) ==
    LET p_nom == Col(df, "p_nom")
        initial_capacity == FSum(p_nom)
    IN  IF FLt(FZero, initial_capacity)
        THEN SetPNom(df, [i \in 1..Len(df) |->
                            FMul(p_nom[i], FDiv(initial_capacity, required))])
        ELSE df

\* Lines 1001-1014: the branch of _update_in_network that increases capacity.
IncreaseCapacity(df, required, method) ==
    LET p_nom == Col(df, "p_nom")
        initial_capacity == FSum(p_nom)
        n == Len(df)
        capacity_added_at_each_bus == FDiv(FSub(required, initial_capacity), FloatOf(n, 1))
        factor == FDiv(required, initial_capacity)
        added == [i \in 1..n |-> FAdd(p_nom[i], capacity_added_at_each_bus)]
        scaled == [i \in 1..n |-> FMul(p_nom[i], factor)]
    IN  IF method = "additional" THEN SetPNom(df, added)
        ELSE IF method = "proportional" /\ FLt(FZero, initial_capacity)
             THEN SetPNom(df, scaled)
        ELSE IF method = "proportional" /\ FEq(initial_capacity, FZero)
             THEN SetPNom(df, added)
        ELSE df

\* A plausible slip in the reduce branch: the difference shared out with the wrong sign.
ReduceCapacityWrongSign(df, required) ==
    LET p_nom == Col(df, "p_nom")
        initial_capacity == FSum(p_nom)
    IN  SetPNom(df, [i \in 1..Len(df) |->
                       FAdd(p_nom[i], FDiv(FSub(initial_capacity, required),
                                           FloatOf(Len(df), 1)))])

\* Lines 1018-1020: the branch of _update_in_network that reduces capacity.
ReduceCapacity(df, required) ==
    LET p_nom == Col(df, "p_nom")
        initial_capacity == FSum(p_nom)
        factor == FDiv(required, initial_capacity)
    IN  SetPNom(df, [i \in 1..Len(df) |-> FMul(p_nom[i], factor)])

\* _update_in_network(df, required_capacity, method_increase): the table returned.
update_in_network(df, required, method) ==
    LET initial_capacity == FSum(Col(df, "p_nom"))
    IN  IF FInt(required) > FInt(initial_capacity)
        THEN IncreaseCapacity(df, required, method)
        ELSE IF FInt(required) < FInt(initial_capacity)
        THEN ReduceCapacity(df, required)
        ELSE df

\* The messages _update_in_network prints (the warning of line 1012).
update_prints(df, required, method) ==
    IF /\ FInt(required) > FInt(FSum(Col(df, "p_nom")))
       /\ method = "proportional"
       /\ FEq(FSum(Col(df, "p_nom")), FZero)
    THEN {"warning: no initial capacity"}
    ELSE {}

\* The rows of n.generators, named by their position, that satisfy Keep, in order.
Row(i) ==
    [name |-> i, bus |-> generators[i].bus, carrier |-> generators[i].carrier,
     p_nom |-> generators[i].p_nom, p_nom_min |-> generators[i].p_nom_min,
     p_nom_max |-> generators[i].p_nom_max]

RECURSIVE RowsFrom(_, _)
RowsFrom(i, keep) ==
    IF i > Len(generators) THEN <<>>
    ELSE (IF i \in keep THEN <<Row(i)>> ELSE <<>>) \o RowsFrom(i + 1, keep)

\* list_buses_local: the buses within region rr (lines 1068-1072).
list_buses_local(rr) == {b \in DOMAIN BusRegion : BusRegion[b] = rr}

\* The materiality floor of line 1076, 0.01.
Floor == FloatOf(1, 100)

\* A plausible slip in the materiality filter: >= 0.01 for > 0.01.
LocalGeneratorsFloorInclusive(cc, rr) ==
    LET local == {i \in 1..Len(generators) :
                    /\ generators[i].bus \in list_buses_local(rr)
                    /\ generators[i].carrier = cc}
        material == {i \in local : FLe(Floor, generators[i].p_nom)}
    IN  IF material # {} THEN RowsFrom(1, material) ELSE RowsFrom(1, local)

\* df_generators_local_cc as lines 1076-1079 select it.
LocalGenerators(cc, rr) ==
    LET local == {i \in 1..Len(generators) :
                    /\ generators[i].bus \in list_buses_local(rr)
                    /\ generators[i].carrier = cc}
        material == {i \in local : FLt(Floor, generators[i].p_nom)}
    IN  IF material # {} THEN RowsFrom(1, material) ELSE RowsFrom(1, local)

\* A plausible slip in the loop test: .all() for .any().
AllOverflow(df) == \A i \in 1..Len(df) : FLt(df[i].p_nom_max, df[i].p_nom)

\* (df['p_nom'] > df['p_nom_max']).any(): the test of the while loop.
AnyOverflow(df) == \E i \in 1..Len(df) : FLt(df[i].p_nom_max, df[i].p_nom)

\* The check of line 1098.
NoSpace(df) == FLt(FSum(Col(df, "p_nom_max")), FSum(Col(df, "p_nom")))

ForPositions == {"for", "filtered", "warned", "written"}
AtFor == pc \in ForPositions /\ k < Len(Pairs)
cc == Pairs[k + 1][1]
rr == Pairs[k + 1][2]

\* Line 1060 false: the column is no region of dic_NUTS2.
SkipColumn ==
    /\ UNCHANGED otherThanReconciler
    /\ AtFor
    /\ rr \notin dic_nuts2
    /\ pc' = "filtered"
    /\ k' = k + 1
    /\ printed' = {}
    /\ UNCHANGED <<generators, method_increase, df_installed_capacity,
                   df_generators_local_cc, df_updated, df_to_sanitise,
                   required_capacity, n_iter>>

\* A plausible slip: the missing technology treated as fatal.
WarnNoGeneratorsFatal ==
    /\ UNCHANGED otherThanReconciler
    /\ AtFor
    /\ rr \in dic_nuts2
    /\ LocalGenerators(cc, rr) = <<>>
    /\ pc' = "exit"
    /\ k' = k + 1
    /\ df_generators_local_cc' = <<>>
    /\ printed' = {}
    /\ UNCHANGED <<generators, method_increase, df_installed_capacity,
                   df_updated, df_to_sanitise, required_capacity, n_iter>>

\* Lines 1076-1082: no generator of the carrier in the region, a warning only.
WarnNoGenerators ==
    /\ UNCHANGED otherThanReconciler
    /\ AtFor
    /\ rr \in dic_nuts2
    /\ LocalGenerators(cc, rr) = <<>>
    /\ pc' = "warned"
    /\ k' = k + 1
    /\ df_generators_local_cc' = <<>>
    /\ printed' = {"warning: no bus with generator"}
    /\ UNCHANGED <<generators, method_increase, df_installed_capacity,
                   df_updated, df_to_sanitise, required_capacity, n_iter>>

\* Lines 1085-1102: the required capacity, the first rescaling, the space check.
UpdateCapacities ==
    /\ UNCHANGED otherThanReconciler
    /\ AtFor
    /\ rr \in dic_nuts2
    /\ LocalGenerators(cc, rr) # <<>>
    /\ \E s \in (IF generators = ExampleGenerators THEN ExampleSeries ELSE SeriesValues) :
          LET local == LocalGenerators(cc, rr)
              required == FMean(ToFloat(s))
              updated == update_in_network(local, required, method_increase)
          IN  /\ df_installed_capacity' = s
              /\ df_generators_local_cc' = local
              /\ required_capacity' = required
              /\ df_updated' = updated
              /\ printed' = update_prints(local, required, method_increase)
              /\ IF NoSpace(updated)
                 THEN /\ pc' = "exit"
                      /\ UNCHANGED df_to_sanitise
                 ELSE /\ pc' = "while"
                      /\ df_to_sanitise' = updated
    /\ k' = k + 1
    /\ n_iter' = 0
    /\ UNCHANGED <<generators, method_increase>>

\* df_generators_local_cc['p_nom'] > df_updated['p_nom_max'] (line 1108): the rows
\* of the mask, by position.  The left side is the table as selected, not df_updated.
Conflictive ==
    {i \in 1..Len(df_updated) :
        FLt(df_updated[i].p_nom_max, df_generators_local_cc[i].p_nom)}

Min(S) == CHOOSE x \in S : \A y \in S : x <= y

\* df.drop(name): the table without the row called name.
Drop(df, name) == SelectSeq(df, LAMBDA r : r.name # name)

\* df_updated.update(other): the rows other holds replace those of df_updated.
UpdateFrom(df, other) ==
    [i \in 1..Len(df) |->
        IF df[i].name \in Names(other)
        THEN CHOOSE r \in {other[j] : j \in 1..Len(other)} : r.name = df[i].name
        ELSE df[i]]

\* Line 1108 with an empty mask: .index[0] raises IndexError.
RepairIndexError ==
    /\ UNCHANGED otherThanReconciler
    /\ pc = "while"
    /\ AnyOverflow(df_updated)
    /\ Conflictive = {}
    /\ pc' = "error"
    /\ n_iter' = n_iter + 1
    /\ UNCHANGED <<generators, method_increase, k, df_installed_capacity,
                   df_generators_local_cc, df_updated, df_to_sanitise,
                   required_capacity, printed>>

\* Lines 1108-1117 when the row was dropped in an earlier iteration: drop raises KeyError.
RepairKeyError ==
    /\ UNCHANGED otherThanReconciler
    /\ pc = "while"
    /\ AnyOverflow(df_updated)
    /\ Conflictive # {}
    /\ LET i == Min(Conflictive)
           overcapacity == FSub(df_updated[i].p_nom, df_updated[i].p_nom_max)
       IN  /\ df_updated[i].name \notin Names(df_to_sanitise)
           /\ df_updated' = [df_updated EXCEPT ![i].p_nom = FSub(@, overcapacity)]
    /\ pc' = "error"
    /\ n_iter' = n_iter + 1
    /\ UNCHANGED <<generators, method_increase, k, df_installed_capacity,
                   df_generators_local_cc, df_to_sanitise, required_capacity, printed>>

\* Lines 1105-1125: one full iteration of the overflow repair loop.
RepairClamp ==
    /\ UNCHANGED otherThanReconciler
    /\ pc = "while"
    /\ AnyOverflow(df_updated)
    /\ Conflictive # {}
    /\ LET i == Min(Conflictive)
           index_conflictive == df_updated[i].name
           overcapacity == FSub(df_updated[i].p_nom, df_updated[i].p_nom_max)
           clamped == [df_updated EXCEPT ![i].p_nom = FSub(@, overcapacity)]
           rest == Drop(df_to_sanitise, index_conflictive)
           required == FAdd(FSum(Col(rest, "p_nom")), overcapacity)
           sanitised == update_in_network(rest, required, method_increase)
       IN  /\ index_conflictive \in Names(df_to_sanitise)
           /\ required_capacity' = required
           /\ df_to_sanitise' = sanitised
           /\ df_updated' = UpdateFrom(clamped, sanitised)
           /\ printed' = printed \cup update_prints(rest, required, method_increase)
    /\ pc' = "while"
    /\ n_iter' = n_iter + 1
    /\ UNCHANGED <<generators, method_increase, k, df_installed_capacity,
                   df_generators_local_cc>>

\* Lines 1129-1144: the messages printed after the loop.
FinalPrints ==
    (IF FInt(FSum(Col(df_updated, "p_nom"))) = FInt(FSum(Col(df_generators_local_cc, "p_nom")))
     THEN {"capacity matches"} ELSE {"capacity was updated"})
    \cup
    (IF \E i \in 1..Len(df_updated) : FEq(df_updated[i].p_nom, df_updated[i].p_nom_max)
     THEN {"maximum capacity was reached"} ELSE {})

\* A plausible slip in the write-back: p_nom_min raised or lowered with p_nom.
WriteBackWithMin ==
    /\ UNCHANGED otherThanReconciler
    /\ pc = "while"
    /\ ~AnyOverflow(df_updated)
    /\ generators' =
          [i \in 1..Len(generators) |->
              IF i \in Names(df_updated)
              THEN LET r == CHOOSE r \in {df_updated[j] : j \in 1..Len(df_updated)} :
                                r.name = i
                   IN  [bus |-> r.bus, carrier |-> r.carrier, p_nom |-> r.p_nom,
                        p_nom_min |-> r.p_nom, p_nom_max |-> r.p_nom_max]
              ELSE generators[i]]
    /\ printed' = printed \cup FinalPrints
    /\ pc' = "written"
    /\ UNCHANGED <<method_increase, k, df_installed_capacity, df_generators_local_cc,
                   df_updated, df_to_sanitise, required_capacity, n_iter>>

\* Lines 1105, 1129-1149: the loop test fails; messages; n.generators.update(df_updated).
WriteBack ==
    /\ UNCHANGED otherThanReconciler
    /\ pc = "while"
    /\ ~AnyOverflow(df_updated)
    /\ generators' =
          [i \in 1..Len(generators) |->
              IF i \in Names(df_updated)
              THEN LET r == CHOOSE r \in {df_updated[j] : j \in 1..Len(df_updated)} :
                                r.name = i
                   IN  [bus |-> r.bus, carrier |-> r.carrier, p_nom |-> r.p_nom,
                        p_nom_min |-> r.p_nom_min, p_nom_max |-> r.p_nom_max]
              ELSE generators[i]]
    /\ printed' = printed \cup FinalPrints
    /\ pc' = "written"
    /\ UNCHANGED <<method_increase, k, df_installed_capacity, df_generators_local_cc,
                   df_updated, df_to_sanitise, required_capacity, n_iter>>

\* Both for loops are exhausted: fun_update_elec_capacities returns to main.
Return ==
    /\ UNCHANGED otherThanReconciler
    /\ pc \in ForPositions
    /\ k = Len(Pairs)
    /\ pc' = "returned"
    /\ UNCHANGED <<generators, method_increase, k, df_installed_capacity,
                   df_generators_local_cc, df_updated, df_to_sanitise,
                   required_capacity, n_iter, printed>>

\* main, line 1355: n.export_to_netcdf.
Export ==
    /\ UNCHANGED otherThanReconciler
    /\ pc = "returned"
    /\ pc' = "exported"
    /\ UNCHANGED <<generators, method_increase, k, df_installed_capacity,
                   df_generators_local_cc, df_updated, df_to_sanitise,
                   required_capacity, n_iter, printed>>

NextReconciler ==
    \/ SkipColumn
    \/ WarnNoGenerators
    \/ UpdateCapacities
    \/ RepairIndexError
    \/ RepairKeyError
    \/ RepairClamp
    \/ WriteBack
    \/ Return
    \/ Export

SpecReconciler == InitReconciler /\ [][NextReconciler]_vars

(***************************************************************************)
(* Properties of the reconciler.                                           *)
(***************************************************************************)
\* A pair has been selected with candidates (lines 1085-1149 are or were running).
PairSelected == df_generators_local_cc # <<>> /\ pc \in {"while", "written", "exit", "error"}

\* The required capacity of the pair: the time-mean of the reported series.
Reported == FMean(ToFloat(df_installed_capacity))
InitialTotal == FSum(Col(df_generators_local_cc, "p_nom"))
CombinedMax == FSum(Col(df_generators_local_cc, "p_nom_max"))

\* p_nom of the candidates as n.generators holds them now.
NetworkPNom ==
    [i \in 1..Len(df_generators_local_cc) |->
        generators[df_generators_local_cc[i].name].p_nom]

\* Every candidate started within its own upper bound.
StartedWithinBounds ==
    \A i \in 1..Len(df_generators_local_cc) :
        FLe(df_generators_local_cc[i].p_nom, df_generators_local_cc[i].p_nom_max)

\* C1 (as claimed): for every pair with a candidate whose required capacity
\* (the time-mean of the reported series, whole or fractional) does not exceed
\* the candidates' combined p_nom_max, under either method, the capacities are
\* written back and their sum equals the required capacity.
C1_Convergence ==
    (PairSelected /\ pc # "while" /\ FLe(Reported, CombinedMax))
        => (pc = "written" /\ FEq(FSum(NetworkPNom), Reported))

\* C2: whenever the write-back of a pair is reached, every candidate's new p_nom
\* is at most its p_nom_max.
C2_Bounds ==
    (PairSelected /\ pc = "written")
        => \A i \in 1..Len(df_generators_local_cc) :
              FLe(NetworkPNom[i], generators[df_generators_local_cc[i].name].p_nom_max)

\* C2 witness: a write-back after an iteration of the repair loop clamped a generator.
C2_Witness ==
    /\ PairSelected /\ pc = "written" /\ n_iter = 1
    /\ \E i \in 1..Len(df_generators_local_cc) :
          /\ NetworkPNom[i] = df_generators_local_cc[i].p_nom_max
          /\ NetworkPNom[i] # df_generators_local_cc[i].p_nom

\* C3 (as claimed): for every pair whose required capacity does not exceed the
\* combined p_nom_max, the repair loop ends without an exception after at most
\* N iterations, N the number of candidates.
C3_Termination ==
    (PairSelected /\ FLe(Reported, CombinedMax))
        => (pc # "error" /\ n_iter <= Len(df_generators_local_cc))

\* C4 (as claimed): when the required capacity is greater than the initial total,
\* no candidate's p_nom after reconciliation is lower than its initial p_nom.
C4_Original ==
    (PairSelected /\ pc = "written" /\ FLt(InitialTotal, Reported))
        => \A i \in 1..Len(df_generators_local_cc) :
              FLe(df_generators_local_cc[i].p_nom, NetworkPNom[i])

\* C4 (amended): when the required capacity is greater than the initial total
\* and every candidate starts with p_nom <= p_nom_max, no candidate's p_nom
\* after reconciliation is lower than its initial p_nom.
C4_Increase ==
    (PairSelected /\ pc = "written" /\ FLt(InitialTotal, Reported) /\ StartedWithinBounds)
        => \A i \in 1..Len(df_generators_local_cc) :
              FLe(df_generators_local_cc[i].p_nom, NetworkPNom[i])

\* C4 witness: an increase was written back and raised a candidate.
C4_Witness ==
    /\ PairSelected /\ pc = "written" /\ FLt(InitialTotal, Reported) /\ StartedWithinBounds
    /\ method_increase = "proportional"
    /\ \E i \in 1..Len(df_generators_local_cc) :
          FLt(df_generators_local_cc[i].p_nom, NetworkPNom[i])

\* C5 (as claimed): when the required capacity is lower than the initial total,
\* no candidate's p_nom after reconciliation is higher than its initial p_nom.
C5_Original ==
    (PairSelected /\ pc = "written" /\ FLt(Reported, InitialTotal))
        => \A i \in 1..Len(df_generators_local_cc) :
              FLe(NetworkPNom[i], df_generators_local_cc[i].p_nom)

\* C5 (amended): when the required capacity is lower than the initial total and
\* every candidate starts with p_nom <= p_nom_max, no candidate's p_nom after
\* reconciliation is higher than its initial p_nom.
C5_Decrease ==
    (PairSelected /\ pc = "written" /\ FLt(Reported, InitialTotal) /\ StartedWithinBounds)
        => \A i \in 1..Len(df_generators_local_cc) :
              FLe(NetworkPNom[i], df_generators_local_cc[i].p_nom)

\* C5 witness: a decrease was written back and lowered a candidate.
C5_Witness ==
    /\ PairSelected /\ pc = "written" /\ FLt(Reported, InitialTotal) /\ StartedWithinBounds
    /\ \E i \in 1..Len(df_generators_local_cc) :
          FLt(NetworkPNom[i], df_generators_local_cc[i].p_nom)

\* C6 (as claimed): a pair whose required capacity exceeds the candidates'
\* combined p_nom_max ends the run at the check before the repair loop: the
\* loop is not entered, nothing is written, no later pair is taken and the
\* network is not exported.
C6_FatalAbort ==
    (PairSelected /\ FLt(CombinedMax, Reported)) => (pc = "exit" /\ n_iter = 0)

\* The generators of carrier c on buses within region r.
InRegion(c, r) ==
    {i \in 1..Len(generators) :
        generators[i].carrier = c /\ BusRegion[generators[i].bus] = r}

\* C7: a pair with no in-region generator of the carrier only prints a warning:
\* the generator table is unchanged, nothing is raised, and the loops go on to
\* the remaining columns and carriers.
C7_Skip ==
    [][/\ (AtFor /\ rr \in dic_nuts2 /\ InRegion(cc, rr) = {})
            => /\ generators' = generators
               /\ pc' = "warned"
               /\ k' = k + 1
               /\ printed' = {"warning: no bus with generator"}
       /\ pc = "warned"
            => \/ k < Len(Pairs) /\ k' = k + 1 /\ pc' \in {"filtered", "warned", "while", "exit"}
               \/ k = Len(Pairs) /\ pc' = "returned"]_vars

\* C7 witness: the warning was printed and pairs remain to be processed.
C7_Witness == pc = "warned" /\ k < Len(Pairs) /\ printed = {"warning: no bus with generator"}

(***************************************************************************)
(* Area-overlap transfer matrix: shapes_to_shapes.                         *)
(*                                                                         *)
(* A polygon is a non-empty set of unit cells of a grid: its area is the   *)
(* number of its cells, and the intersection of two polygons is the set of *)
(* the cells they share.  Two polygons that only touch share no cell: the  *)
(* code stores area 0 for them, which is the entry an unset pair has.      *)
(***************************************************************************)
NumCells == 3       \* the cells of the grid SpecTransfer draws polygons from

Polygons == (SUBSET (1..NumCells)) \ {{}}
PolygonSets == {<<a>> : a \in Polygons} \cup {<<a, b>> : a \in Polygons, b \in Polygons}

Area(g) == Cardinality(g)
Intersects(a, b) == a \cap b # {}

\* A plausible slip: the overlap divided by the area of the orig polygon.
shapes_to_shapes_by_orig(o, d) ==
    [i \in 1..Len(d) |->
        [j \in 1..Len(o) |->
            IF Intersects(o[j], d[i])
            THEN Rat(Area(o[j] \cap d[i]), Area(o[j]))
            ELSE Zero]]

\* A plausible slip: the matrix indexed (orig, dest) instead of (dest, orig).
shapes_to_shapes_transposed(o, d) ==
    [j \in 1..Len(o) |->
        [i \in 1..Len(d) |->
            IF Intersects(o[j], d[i])
            THEN Rat(Area(o[j] \cap d[i]), Area(d[i]))
            ELSE Zero]]

\* shapes_to_shapes(orig, dest): transfer[i][j], i over dest and j over orig.
shapes_to_shapes(o, d) ==
    [i \in 1..Len(d) |->
        [j \in 1..Len(o) |->
            IF Intersects(o[j], d[i])
            THEN Rat(Area(o[j] \cap d[i]), Area(d[i]))
            ELSE Zero]]

InitTransfer ==
    /\ orig \in PolygonSets
    /\ dest \in PolygonSets
    /\ transfer = <<>>
    /\ IdleOthers("transfer")

\* One call of shapes_to_shapes(orig, dest).
ShapesToShapes ==
    /\ transfer = <<>>
    /\ transfer' = shapes_to_shapes(orig, dest)
    /\ UNCHANGED <<orig, dest, otherThanTransfer>>

NextTransfer == ShapesToShapes

SpecTransfer == InitTransfer /\ [][NextTransfer]_vars

(***************************************************************************)
(* Properties of the transfer matrix.                                      *)
(***************************************************************************)
Returned == transfer # <<>>

EntriesInUnitInterval ==
    \A i \in 1..Len(dest) : \A j \in 1..Len(orig) :
        RLe(Zero, transfer[i][j]) /\ RLe(transfer[i][j], One)

RowSumsAtMostOne == \A i \in 1..Len(dest) : RLe(RSum(transfer[i]), One)

\* No two polygons of orig share area.
OrigDisjoint ==
    \A j1 \in 1..Len(orig) : \A j2 \in 1..Len(orig) :
        j1 # j2 => orig[j1] \cap orig[j2] = {}

\* C10 (as claimed): for any two polygon sets, every entry of the matrix lies
\* in [0,1] and every row sums to at most 1.
C10_Original == Returned => (EntriesInUnitInterval /\ RowSumsAtMostOne)

\* C10 (amended): every entry of the matrix lies in [0,1]; and when no two
\* polygons of orig overlap, every row sums to at most 1.
C10_Bounds ==
    Returned => /\ EntriesInUnitInterval
                /\ OrigDisjoint => RowSumsAtMostOne

\* C10 witness: two disjoint orig polygons, a row filled by both that sums to 1
\* and a row that reaches beyond them and sums to less than 1.
C10_Witness ==
    /\ Returned /\ OrigDisjoint /\ Len(orig) = 2 /\ Len(dest) = 2
    /\ \E i \in 1..2 : /\ RSum(transfer[i]) = One
                       /\ transfer[i][1] # Zero /\ transfer[i][2] # Zero
    /\ \E i \in 1..2 : RLt(Zero, RSum(transfer[i])) /\ RLt(RSum(transfer[i]), One)

\* C11 (transfer matrix definition): the matrix returned for (orig, dest) has
\* len(dest) rows and len(orig) columns; entry (i,j) times area(dest[i]) is the
\* area that orig[j] and dest[i] share, and the entry is zero for every pair that
\* does not intersect.
C11_TransferDefinition ==
    Returned =>
        /\ Len(transfer) = Len(dest)
        /\ \A i \in 1..Len(dest) :
              /\ Len(transfer[i]) = Len(orig)
              /\ \A j \in 1..Len(orig) :
                    /\ RMul(transfer[i][j], Rat(Cardinality(dest[i]), 1))
                          = Rat(Cardinality({c \in dest[i] : c \in orig[j]}), 1)
                    /\ (\A c \in dest[i] : c \notin orig[j]) => transfer[i][j] = Zero

\* C11 witness: one orig polygon and two dest polygons of different areas; the
\* first is covered in part (a proper fraction), the second not touched (zero).
C11_Witness ==
    /\ Returned /\ Len(orig) = 1 /\ Len(dest) = 2
    /\ Cardinality(dest[1]) # Cardinality(orig[1])
    /\ transfer[1][1] \notin {Zero, One}
    /\ transfer[2][1] = Zero

(***************************************************************************)
(* Spatial load disaggregation: attach_load (national mode) and            *)
(* attach_load_vPyPSA_Spain (regional mode).                               *)
(*                                                                         *)
(* NaN is the pair <<0, 0>>; it arises from 0/0 in normed and propagates   *)
(* through + and *.  Every weight and load is non-negative, so a sum of 0  *)
(* means every term is 0 and x/0 with x # 0 does not arise.                *)
(***************************************************************************)
MaxLoad == 1        \* first sample of a load series: 0 .. MaxLoad

NaN == <<0, 0>>
IsNaN(x) == x[2] = 0
XAdd(a, b) == IF IsNaN(a) \/ IsNaN(b) THEN NaN ELSE RAdd(a, b)
XMul(a, b) == IF IsNaN(a) \/ IsNaN(b) THEN NaN ELSE RMul(a, b)
XDiv(a, b) == IF IsNaN(a) \/ IsNaN(b) \/ b = Zero THEN NaN ELSE RDiv(a, b)

\* numpy sum: NaN propagates.
RECURSIVE XSum(_)
XSum(v) == IF v = <<>> THEN Zero ELSE XAdd(Head(v), XSum(Tail(v)))

\* pandas Series.sum(): NaN is skipped.
SumSkipNa(v) == RSum(SelectSeq(v, LAMBDA x : ~IsNaN(x)))

\* A plausible slip: normalising by the number of entries.
normed_by_len(v) == [i \in 1..Len(v) |-> XDiv(v[i], Rat(Len(v), 1))]

\* normed(s) = s / s.sum()
normed(v) == [i \in 1..Len(v) |-> XDiv(v[i], SumSkipNa(v))]

\* .fillna(1.0)
FillNa(x) == IF IsNaN(x) THEN One ELSE x

\* The demand buses (n.buses with substation_lv), in index order, and their regions.
substation_lv_i == <<"b1", "b2", "b3">>
BusGeometry ==
    [b \in {"b1", "b2", "b3"} |->
        CASE b = "b1" -> {1, 2}
          [] b = "b2" -> {3, 4}
          [] b = "b3" -> {5}]

\* gdf_regions.country of the three buses.  Both modes call upsample once for
\* every country of the buses (lines 361-365 and 492-497); in the regional mode
\* every call distributes every column of the load table (line 422), so the
\* buses of a second country are given the regional series once more.
BusCountryChoices(regional) ==
    IF regional THEN {<<"ES", "ES", "ES">>, <<"ES", "PT", "ES">>}
    ELSE {<<"ES", "ES", "ES">>, <<"ES", "ES", "PT">>, <<"UA", "UA", "ES">>}

\* The NUTS3 table: three subdivisions of ES, two of region ES11 and one of ES21.
\* A code is the sequence of its characters after the country.
Nuts3Index == << <<"ES", "1", "1", "1">>, <<"ES", "1", "1", "2">>, <<"ES", "2", "1", "1">> >>
Nuts3Geometries == << {{1}, {1, 2}}, {{3}, {6}}, {{4, 5}, {5, 6}, {6}} >>
Nuts3Stats ==
    << {[gdp |-> NaN, pop |-> NaN], [gdp |-> Zero, pop |-> Rat(3, 1)]},
       {[gdp |-> Rat(2, 1), pop |-> One], [gdp |-> Zero, pop |-> Rat(3, 1)]},
       {[gdp |-> Rat(2, 1), pop |-> One], [gdp |-> Zero, pop |-> Rat(3, 1)]} >>

\* The table read for UA and MD; "b9" is no demand bus of the network.
NonNuts3Tables ==
    { << [Bus |-> "b1", country |-> "UA", gdp |-> Rat(2, 1), pop |-> One],
         [Bus |-> "b9", country |-> "UA", gdp |-> Rat(5, 1), pop |-> Rat(5, 1)],
         [Bus |-> "b2", country |-> "UA", gdp |-> One, pop |-> Rat(3, 1)] >>,
      << [Bus |-> "b1", country |-> "UA", gdp |-> Zero, pop |-> One],
         [Bus |-> "b9", country |-> "UA", gdp |-> Rat(5, 1), pop |-> Rat(5, 1)],
         [Bus |-> "b2", country |-> "UA", gdp |-> Zero, pop |-> Rat(2, 1)] >> }

\* A load series: two timestamps.
LoadSeries == {<<a, a + 1>> : a \in 0..MaxLoad}

Range(f) == {f[i] : i \in DOMAIN f}

\* The keys of gdf_regions.geometry.groupby(gdf_regions.country), sorted.
CountryOrder == <<"ES", "MD", "PT", "UA">>
Groups == SelectSeq(CountryOrder, LAMBDA c : c \in Range(bus_country))
Group(cntry) ==
    SelectSeq(substation_lv_i,
              LAMBDA b : \E i \in 1..Len(substation_lv_i) :
                            substation_lv_i[i] = b /\ bus_country[i] = cntry)

\* The columns of the load table: countries, or region codes.
LoadColumns(regional) ==
    IF regional THEN << <<"ES", "1", "1">>, <<"ES", "2", "1">> >>
    ELSE Groups

InitLoad ==
    /\ enable \in BOOLEAN
    /\ update_gdp_pop \in BOOLEAN
    /\ scaling \in {One, Rat(2, 1)}
    /\ bus_country \in BusCountryChoices(enable)
    /\ \E g \in [1..3 -> UNION Range(Nuts3Geometries)], st \in [1..3 -> UNION Range(Nuts3Stats)] :
          /\ \A i \in 1..3 : g[i] \in Nuts3Geometries[i] /\ st[i] \in Nuts3Stats[i]
          /\ nuts3 = [i \in 1..3 |->
                        [index |-> Nuts3Index[i], country |-> "ES", geometry |-> g[i],
                         gdp |-> st[i].gdp, pop |-> st[i].pop]]
    /\ IF "UA" \in Range(bus_country)
       THEN gdp_pop_non_nuts3 \in NonNuts3Tables
       ELSE gdp_pop_non_nuts3 = <<>>
    /\ opsd_load \in [Range(LoadColumns(enable)) -> LoadSeries]
    /\ lpc = "start"
    /\ gi = 0 /\ ci = 0
    /\ load = <<>> /\ gdp_n = <<>> /\ pop_n = <<>> /\ factors = <<>>
    /\ return_rr = <<>> /\ return_total = <<>> /\ frames = <<>> /\ p_set = <<>>
    /\ IdleOthers("load")

\* Lines 302-310 and 391-407: the inputs are read and the load table is scaled.
ReadInputs ==
    /\ lpc = "start"
    /\ opsd_load' = [c \in DOMAIN opsd_load |->
                        [t \in 1..Len(opsd_load[c]) |-> RMul(Rat(opsd_load[c][t], 1), scaling)]]
    /\ lpc' = "groups"
    /\ UNCHANGED <<enable, update_gdp_pop, scaling, bus_country, nuts3, gdp_pop_non_nuts3,
                   gi, ci, load, gdp_n, pop_n, factors, return_rr, return_total, frames,
                   p_set, otherThanLoad>>

\* transfer.dot(values) for transfer = shapes_to_shapes(group, rows.geometry).T:
\* one entry per bus of the group.
TransferDot(group, rows, column) ==
    LET T == shapes_to_shapes([j \in 1..Len(group) |-> BusGeometry[group[j]]],
                              [i \in 1..Len(rows) |-> rows[i].geometry])
    IN  [j \in 1..Len(group) |->
            XSum([i \in 1..Len(rows) |-> XMul(T[i][j], FillNa(rows[i][column]))])]

\* The weights of GDP and population (lines 331-339 and 450-458).
Weights(cntry) ==
    IF update_gdp_pop /\ (enable \/ cntry = "ES")
    THEN <<Rat(18, 100), Rat(82, 100)>>
    ELSE <<Rat(6, 10), Rat(4, 10)>>

\* normed(w_gdp * normed(gdp) + w_pop * normed(pop))
Combine(w, gdp, pop) ==
    LET g == normed(gdp)
        q == normed(pop)
    IN  normed([i \in 1..Len(gdp) |-> XAdd(XMul(w[1], g[i]), XMul(w[2], q[i]))])

\* A series indexed by the labels of a sequence.
Indexed(labels, values) ==
    [b \in Range(labels) |->
        values[CHOOSE i \in 1..Len(labels) : labels[i] = b]]

\* A plausible slip: the series handed to every bus without its factor.
FrameUnweighted(fac, series) ==
    [b \in DOMAIN fac |-> [t \in 1..Len(series) |-> series[t]]]

\* pd.DataFrame(factors.values * load.values[:, np.newaxis], columns=factors.index)
Frame(fac, series) ==
    [b \in DOMAIN fac |-> [t \in 1..Len(series) |-> XMul(fac[b], series[t])]]

\* The rows of gdp_pop_non_nuts3 kept by lines 347-350.
NonNuts3Rows(cntry) ==
    SelectSeq(gdp_pop_non_nuts3,
              LAMBDA r : r.country = cntry /\ r.Bus \in Range(substation_lv_i))

\* nuts3.index.str.contains(rr_ID): the code holds rr_ID as a substring.
Contains(code, id) ==
    \E o \in 0..(Len(code) - Len(id)) : SubSeq(code, o + 1, o + Len(id)) = id

NextGroup == Groups[gi + 1]

\* A plausible slip: the series of the first column instead of the country's.
SingleBusFrameFirstColumn(cntry) ==
    [b \in Range(Group(cntry)) |-> opsd_load[Groups[1]]]

\* pd.DataFrame({group.index[0]: load}) (line 316)
SingleBusFrame(cntry) == [b \in Range(Group(cntry)) |-> opsd_load[cntry]]

\* attach_load.upsample, len(group) == 1 (lines 313-316).
UpsampleSingleBus ==
    /\ lpc = "groups" /\ ~enable /\ gi < Len(Groups)
    /\ Len(Group(NextGroup)) = 1
    /\ load' = opsd_load[NextGroup]
    /\ return_rr' = SingleBusFrame(NextGroup)
    /\ frames' = Append(frames, return_rr')
    /\ gdp_n' = <<>> /\ pop_n' = <<>> /\ factors' = <<>>
    /\ gi' = gi + 1
    /\ UNCHANGED <<enable, update_gdp_pop, scaling, bus_country, nuts3, gdp_pop_non_nuts3,
                   opsd_load, lpc, ci, return_total, p_set, otherThanLoad>>

\* attach_load.upsample for a country with NUTS3 data (lines 313-339, 355-359).
UpsampleNuts3 ==
    /\ lpc = "groups" /\ ~enable /\ gi < Len(Groups)
    /\ Len(Group(NextGroup)) > 1
    /\ NextGroup \notin {"UA", "MD"}
    /\ LET group == Group(NextGroup)
           nuts3_cntry == SelectSeq(nuts3, LAMBDA r : r.country = NextGroup)
           g == TransferDot(group, nuts3_cntry, "gdp")
           q == TransferDot(group, nuts3_cntry, "pop")
           f == Indexed(group, Combine(Weights(NextGroup), g, q))
       IN  /\ load' = opsd_load[NextGroup]
           /\ gdp_n' = g
           /\ pop_n' = q
           /\ factors' = f
           /\ return_rr' = Frame(f, opsd_load[NextGroup])
           /\ frames' = Append(frames, return_rr')
    /\ gi' = gi + 1
    /\ UNCHANGED <<enable, update_gdp_pop, scaling, bus_country, nuts3, gdp_pop_non_nuts3,
                   opsd_load, lpc, ci, return_total, p_set, otherThanLoad>>

\* attach_load.upsample for UA and MD (lines 313-359): the factors are overwritten
\* with those of the per-bus table.
UpsampleNonNuts3 ==
    /\ lpc = "groups" /\ ~enable /\ gi < Len(Groups)
    /\ Len(Group(NextGroup)) > 1
    /\ NextGroup \in {"UA", "MD"}
    /\ LET group == Group(NextGroup)
           nuts3_cntry == SelectSeq(nuts3, LAMBDA r : r.country = NextGroup)
           rows == NonNuts3Rows(NextGroup)
           f == Indexed([i \in 1..Len(rows) |-> rows[i].Bus],
                        Combine(<<Rat(6, 10), Rat(4, 10)>>,
                                [i \in 1..Len(rows) |-> rows[i].gdp],
                                [i \in 1..Len(rows) |-> rows[i].pop]))
       IN  /\ load' = opsd_load[NextGroup]
           /\ gdp_n' = TransferDot(group, nuts3_cntry, "gdp")
           /\ pop_n' = TransferDot(group, nuts3_cntry, "pop")
           /\ factors' = f
           /\ return_rr' = Frame(f, opsd_load[NextGroup])
           /\ frames' = Append(frames, return_rr')
    /\ gi' = gi + 1
    /\ UNCHANGED <<enable, update_gdp_pop, scaling, bus_country, nuts3, gdp_pop_non_nuts3,
                   opsd_load, lpc, ci, return_total, p_set, otherThanLoad>>

\* A plausible slip: the frame of a region replaces the total.
AccumulateOverwrite(total, frame) == frame

\* return_total += return_rr (line 487)
Accumulate(total, frame) ==
    [b \in DOMAIN total |-> [t \in 1..Len(total[b]) |-> XAdd(total[b][t], frame[b][t])]]

\* pd.DataFrame(0, index = opsd_load.index, columns = group.index) (line 420)
ZeroFrame(group) == [b \in Range(group) |-> [t \in 1..2 |-> Zero]]

\* attach_load_vPyPSA_Spain.upsample: one pass of the loop over the load columns
\* (lines 420-487).
UpsampleRegion ==
    /\ lpc = "groups" /\ enable /\ gi < Len(Groups)
    /\ ci < Len(LoadColumns(TRUE))
    /\ LET group == Group(NextGroup)
           rr_ID == LoadColumns(TRUE)[ci + 1]
           nuts3_rr == SelectSeq(nuts3, LAMBDA r : Contains(r.index, rr_ID))
           g == TransferDot(group, nuts3_rr, "gdp")
           q == TransferDot(group, nuts3_rr, "pop")
           f == Indexed(group, Combine(Weights(NextGroup), g, q))
           total == IF ci = 0 THEN ZeroFrame(group) ELSE return_total
       IN  /\ load' = opsd_load[rr_ID]
           /\ gdp_n' = g
           /\ pop_n' = q
           /\ factors' = f
           /\ return_rr' = Frame(f, opsd_load[rr_ID])
           /\ return_total' = Accumulate(total, return_rr')
    /\ ci' = ci + 1
    /\ UNCHANGED <<enable, update_gdp_pop, scaling, bus_country, nuts3, gdp_pop_non_nuts3,
                   opsd_load, lpc, gi, frames, p_set, otherThanLoad>>

\* attach_load_vPyPSA_Spain.upsample returns return_total (line 489).
UpsampleReturn ==
    /\ lpc = "groups" /\ enable /\ gi < Len(Groups)
    /\ ci = Len(LoadColumns(TRUE))
    /\ frames' = Append(frames, return_total)
    /\ gi' = gi + 1
    /\ ci' = 0
    /\ UNCHANGED <<enable, update_gdp_pop, scaling, bus_country, nuts3, gdp_pop_non_nuts3,
                   opsd_load, lpc, load, gdp_n, pop_n, factors, return_rr, return_total,
                   p_set, otherThanLoad>>

\* pd.concat(frames, axis=1)
RECURSIVE Concat(_)
Concat(fs) == IF fs = <<>> THEN <<>> ELSE Head(fs) @@ Concat(Tail(fs))

\* Lines 361-371 and 492-502: the frames are joined and attached as loads.
AttachLoads ==
    /\ lpc = "groups" /\ gi = Len(Groups)
    /\ p_set' = Concat(frames)
    /\ lpc' = "attached"
    /\ UNCHANGED <<enable, update_gdp_pop, scaling, bus_country, nuts3, gdp_pop_non_nuts3,
                   opsd_load, gi, ci, load, gdp_n, pop_n, factors, return_rr, return_total,
                   frames, otherThanLoad>>

NextLoad ==
    \/ ReadInputs
    \/ UpsampleSingleBus
    \/ UpsampleNuts3
    \/ UpsampleNonNuts3
    \/ UpsampleRegion
    \/ UpsampleReturn
    \/ AttachLoads

SpecLoad == InitLoad /\ [][NextLoad]_vars

(***************************************************************************)
(* Properties of the load disaggregation.                                  *)
(***************************************************************************)
\* DataFrame.sum(axis=1) and Series.sum() over a bus-indexed series: NaN is skipped.
RECURSIVE SumOver(_)
SumOver(f) ==
    IF DOMAIN f = {} THEN Zero
    ELSE LET b == CHOOSE x \in DOMAIN f : TRUE
         IN  RAdd(IF IsNaN(f[b]) THEN Zero ELSE f[b],
                  SumOver([x \in DOMAIN f \ {b} |-> f[x]]))

\* The sum over the buses of a frame at timestamp t.
BusSum(frame, t) == SumOver([b \in DOMAIN frame |-> frame[b][t]])

\* The group and the load column of the latest call of upsample (of its latest pass).
LastSeries ==
    IF ~enable THEN <<Groups[gi], Groups[gi]>>
    ELSE IF ci > 0 THEN <<Groups[gi + 1], LoadColumns(TRUE)[ci]>>
    ELSE <<Groups[gi], LoadColumns(TRUE)[Len(LoadColumns(TRUE))]>>

\* The GDP and population vectors that normed divides by their sums, for a group
\* and a load column.
NormedVectors(cntry, column) ==
    IF enable
    THEN LET rows == SelectSeq(nuts3, LAMBDA r : Contains(r.index, column))
         IN  <<TransferDot(Group(cntry), rows, "gdp"), TransferDot(Group(cntry), rows, "pop")>>
    ELSE IF cntry \in {"UA", "MD"}
    THEN LET rows == NonNuts3Rows(cntry)
         IN  <<[i \in 1..Len(rows) |-> rows[i].gdp], [i \in 1..Len(rows) |-> rows[i].pop]>>
    ELSE LET rows == SelectSeq(nuts3, LAMBDA r : r.country = cntry)
         IN  <<TransferDot(Group(cntry), rows, "gdp"), TransferDot(Group(cntry), rows, "pop")>>

\* Both vectors have a nonzero sum for the group and column; a group that takes
\* the single-bus path of the national mode normalises nothing.
NonzeroDenominators(cntry, column) ==
    \/ ~enable /\ Len(Group(cntry)) = 1
    \/ /\ SumSkipNa(NormedVectors(cntry, column)[1]) # Zero
       /\ SumSkipNa(NormedVectors(cntry, column)[2]) # Zero

AllNonzeroDenominators ==
    \A c \in Range(Groups) :
        IF enable THEN \A col \in Range(LoadColumns(TRUE)) : NonzeroDenominators(c, col)
        ELSE NonzeroDenominators(c, c)

SeriesConserved == \A t \in 1..Len(load) : BusSum(return_rr, t) = load[t]

TotalConserved ==
    \A t \in 1..2 : BusSum(p_set, t) = SumOver([c \in DOMAIN opsd_load |-> opsd_load[c][t]])

\* The columns of the load table that the call of upsample for a country
\* distributes: the country's own (line 314), or all of them (line 422).
Consumed(cntry) == IF enable THEN Range(LoadColumns(TRUE)) ELSE {cntry}

\* The sum of the series that a call distributes, at timestamp t.
ConsumedSum(cntry, t) == SumOver([col \in Consumed(cntry) |-> opsd_load[col][t]])

\* The total load attached is the sum of the input series, each counted once for
\* every call of upsample that distributes it.
TotalOfCalls ==
    \A t \in 1..2 :
        BusSum(p_set, t) = SumOver([c \in Range(Groups) |-> ConsumedSum(c, t)])

FactorsNormalised ==
    /\ \A b \in DOMAIN factors : ~IsNaN(factors[b])
    /\ SumOver(factors) = One

\* C8 as stated: the contributions of every series to the buses of its group sum to
\* the scaled input at every timestamp, and the total load attached equals the sum
\* of all input series at every timestamp.
C8_Original ==
    /\ return_rr # <<>> => SeriesConserved
    /\ lpc = "attached" => TotalConserved

\* C8 (load conservation), for inputs whose GDP and population vectors have nonzero
\* sums: the contributions of a series to the buses of its group sum to the scaled
\* input at every timestamp; when that holds of every group and series, the total
\* load attached is the sum of the input series, each counted once for every group
\* it is distributed to, and so equals the sum of all input series at every
\* timestamp in the national mode, and in the regional mode when the demand buses
\* are of one country.
C8_LoadConservation ==
    /\ (return_rr # <<>> /\ NonzeroDenominators(LastSeries[1], LastSeries[2]))
          => SeriesConserved
    /\ (lpc = "attached" /\ AllNonzeroDenominators) =>
          /\ TotalOfCalls
          /\ (~enable \/ Len(Groups) = 1) => TotalConserved

\* C8 witness: regional loads were attached from defined factors to the buses of
\* two countries, both of which overlap both region codes; the series are scaled
\* and nonzero, a bus received load of both region codes' series, and the total
\* attached is the sum of the series counted twice, not once.
C8_Witness ==
    /\ lpc = "attached" /\ enable /\ AllNonzeroDenominators
    /\ Len(Groups) = 2
    /\ scaling # One
    /\ Cardinality({b \in DOMAIN p_set : p_set[b][2] # Zero}) >= 2
    /\ \A c \in DOMAIN opsd_load : opsd_load[c][1] # Zero
    /\ \E b \in DOMAIN return_rr : RLt(return_rr[b][1], p_set[b][1]) /\ return_rr[b][1] # Zero
    /\ TotalOfCalls
    /\ ~TotalConserved

\* C9 as stated: the factors of every group with more than one bus are all defined
\* and sum to 1.
C9_Original == factors # <<>> => FactorsNormalised

\* C9 (weight normalization), for inputs whose GDP and population vectors have
\* nonzero sums: the factors of a group with more than one bus are all defined and
\* sum to 1.
C9_WeightNormalization ==
    (factors # <<>> /\ NonzeroDenominators(LastSeries[1], LastSeries[2]))
        => FactorsNormalised

\* C9 witness: factors were computed from vectors with nonzero sums for a group of
\* several buses, and two of them are strictly between 0 and 1.
C9_Witness ==
    /\ factors # <<>>
    /\ NonzeroDenominators(LastSeries[1], LastSeries[2])
    /\ Cardinality({b \in DOMAIN factors : factors[b] \notin {Zero, One}}) >= 2
    /\ FactorsNormalised

(***************************************************************************)
(* Single-bus countries and regional accumulation.                         *)
(***************************************************************************)
\* The countries with exactly one demand bus.
SingleBusCountries == {c \in Range(Groups) : Len(Group(c)) = 1}

\* C12 (single-bus country): in national mode with scaling factor 1.0 the load
\* table keeps its input values; the call of upsample for a country with exactly
\* one demand bus returns one column, on that bus, equal to the country's series
\* and computes no weights; and the loads attached have, for that country, that
\* one column with the series unchanged.
C12_SingleBus ==
    [][(~enable /\ scaling = One) =>
          /\ lpc = "start" =>
                \A c \in DOMAIN opsd_load : \A t \in 1..2 :
                    opsd_load'[c][t] = Rat(opsd_load[c][t], 1)
          /\ (lpc = "groups" /\ gi < Len(Groups) /\ Len(Group(Groups[gi + 1])) = 1) =>
                LET c == Groups[gi + 1]
                IN  /\ DOMAIN return_rr' = {Group(c)[1]}
                    /\ return_rr'[Group(c)[1]] = opsd_load[c]
                    /\ frames' = Append(frames, return_rr')
                    /\ factors' = <<>> /\ gdp_n' = <<>> /\ pop_n' = <<>>
          /\ lpc' = "attached" =>
                \A c \in SingleBusCountries :
                    /\ {b \in DOMAIN p_set' :
                          \E i \in 1..Len(substation_lv_i) :
                              substation_lv_i[i] = b /\ bus_country[i] = c} = {Group(c)[1]}
                    /\ p_set'[Group(c)[1]] = opsd_load[c]]_vars

\* C12 witness: loads were attached in national mode with scaling 1.0, a country
\* with one demand bus next to a country with several, with different series.
C12_Witness ==
    /\ lpc = "attached" /\ ~enable /\ scaling = One
    /\ \E c \in SingleBusCountries : \E c2 \in Range(Groups) \ SingleBusCountries :
          /\ opsd_load[c] # opsd_load[c2]
          /\ p_set[Group(c)[1]] = opsd_load[c]
          /\ p_set[Group(c)[1]][2] # Zero

\* The factors of the buses of a country for a region code, from the inputs.
RegionFactors(cntry, column) ==
    Indexed(Group(cntry),
            Combine(Weights(cntry), NormedVectors(cntry, column)[1],
                    NormedVectors(cntry, column)[2]))

\* C13 (regional accumulation): in regional mode the load attached to every
\* demand bus at every timestamp is the sum, over all the region codes that are
\* columns of the load table, of the bus's factor for the region times the
\* region's series value.
C13_RegionalAccumulation ==
    (lpc = "attached" /\ enable) =>
        \A c \in Range(Groups) : \A b \in Range(Group(c)) : \A t \in 1..2 :
            p_set[b][t] =
                XSum([n \in 1..Len(LoadColumns(TRUE)) |->
                        XMul(RegionFactors(c, LoadColumns(TRUE)[n])[b],
                             opsd_load[LoadColumns(TRUE)[n]][t])])

\* C13 witness: regional loads were attached and a bus has a nonzero factor for
\* two region codes whose series are nonzero, so its load exceeds either share.
C13_Witness ==
    /\ lpc = "attached" /\ enable
    /\ \E c \in Range(Groups) : \E b \in Range(Group(c)) :
          /\ \A n \in 1..Len(LoadColumns(TRUE)) :
                LET f == RegionFactors(c, LoadColumns(TRUE)[n])[b]
                    v == opsd_load[LoadColumns(TRUE)[n]][2]
                IN  ~IsNaN(f) /\ f # Zero /\ v # Zero /\ RLt(XMul(f, v), p_set[b][2])
          /\ Len(LoadColumns(TRUE)) >= 2

(***************************************************************************)
(* Hydro attachment: attach_hydro.                                         *)
(*                                                                         *)
(* A plant is named by its position in ppl.  max_hours is NaN when the     *)
(* plant table gives none.  flatten_dispatch keeps its default (False).    *)
(***************************************************************************)
MaxHydroPNom == 2   \* p_nom of a plant: 1 .. MaxHydroPNom
MaxInflow == 1      \* first sample of the inflow series of ES: 0 .. MaxInflow

\* (technology, country) of the plants of ppl, in table order.
HydroLayouts ==
    { << <<"Run-Of-River", "ES">>, <<"Reservoir", "ES">>, <<"Pumped Storage", "ES">> >>,
      << <<"Reservoir", "ES">>, <<"Reservoir", "PT">>, <<"Run-Of-River", "PT">> >>,
      << <<"Pumped Storage", "ES">>, <<"Pumped Storage", "PT">> >> }

\* The max_hours a plant table can give for a technology.
MaxHoursValues(technology) ==
    CASE technology = "Reservoir" -> {NaN, Zero, Rat(4, 1)}
      [] technology = "Pumped Storage" -> {NaN, Rat(4, 1)}
      [] OTHER -> {NaN}

\* The inflow profiles: ES alone, or ES and PT.
InflowProfiles ==
    {[c \in {"ES"} |-> <<Rat(a, 1), Rat(a + 1, 1)>>] : a \in 0..MaxInflow}
    \cup {[c \in {"ES", "PT"} |->
              IF c = "ES" THEN <<Rat(a, 1), Rat(a + 1, 1)>> ELSE <<Rat(2, 1), Rat(4, 1)>>]
          : a \in 0..MaxInflow}

\* hydro_capacities: E_store[TWh] and p_nom_discharge[GW] by country; '-' reads as NaN.
HydroStatsChoices ==
    { [c \in {"ES"} |-> [E_store |-> One, p_nom_discharge |-> Rat(2, 1)]],
      [c \in {"ES"} |-> [E_store |-> NaN, p_nom_discharge |-> Rat(2, 1)]],
      [c \in {"ES", "PT"} |->
          IF c = "ES" THEN [E_store |-> One, p_nom_discharge |-> Rat(2, 1)]
          ELSE [E_store |-> Rat(1, 10), p_nom_discharge |-> One]],
      [c \in {"PT"} |-> [E_store |-> Rat(1, 10), p_nom_discharge |-> NaN]] }

InitHydro ==
    /\ \E layout \in HydroLayouts :
          \E p \in [1..Len(layout) -> 1..MaxHydroPNom],
             mh \in [1..Len(layout) -> {NaN, Zero, Rat(4, 1)}] :
             /\ \A i \in 1..Len(layout) : mh[i] \in MaxHoursValues(layout[i][1])
             /\ ppl = [i \in 1..Len(layout) |->
                          [technology |-> layout[i][1], country |-> layout[i][2],
                           p_nom |-> Rat(p[i], 1), max_hours |-> mh[i]]]
    /\ carriers \in {{"ror", "PHS", "hydro"}, {"ror", "PHS"}, {"hydro"}}
    /\ inflow \in InflowProfiles
    /\ hydro_max_hours \in {"energy_capacity_totals_by_country",
                            "estimate_by_large_installations"}
    /\ hydro_stats \in HydroStatsChoices
    /\ hpc = "start"
    /\ dist_key = <<>> /\ inflow_t = <<>>
    /\ ror_generators = <<>> /\ storage_units = <<>> /\ warnings = {}
    /\ IdleOthers("hydro")

\* ppl.query('technology == ...').index
ror == {i \in 1..Len(ppl) : ppl[i].technology = "Run-Of-River"}
phs == {i \in 1..Len(ppl) : ppl[i].technology = "Pumped Storage"}
hydro == {i \in 1..Len(ppl) : ppl[i].technology = "Reservoir"}

\* A plausible slip: every hydro plant takes a share of the inflow.
inflow_idx_all == 1..Len(ppl)

\* inflow_idx = ror.index.union(hydro.index)
inflow_idx == ror \cup hydro

\* Series.sum() over the plants of a set: NaN is skipped.
RECURSIVE PlantSum(_, _)
PlantSum(S, f) ==
    IF S = {} THEN Zero
    ELSE LET i == CHOOSE x \in S : TRUE
         IN  RAdd(IF IsNaN(f[i]) THEN Zero ELSE f[i], PlantSum(S \ {i}, f))

PNomOf == [i \in 1..Len(ppl) |-> ppl[i].p_nom]

\* ppl.loc[inflow_idx, "p_nom"].groupby(country).transform(normed)
DistKey ==
    [i \in inflow_idx |->
        XDiv(ppl[i].p_nom,
             PlantSum({j \in inflow_idx : ppl[j].country = ppl[i].country}, PNomOf))]

\* inflow_countries.unique().difference(inflow.indexes["countries"])
missing_c == {ppl[i].country : i \in inflow_idx} \ DOMAIN inflow

\* A plausible slip: a country without inflow series is given zero inflow and
\* the call goes on.
HydroMissingInflowAsZero ==
    /\ hpc = "start"
    /\ inflow_idx # {}
    /\ missing_c # {}
    /\ dist_key' = DistKey
    /\ inflow_t' = [i \in inflow_idx |->
                      [t \in 1..2 |->
                          IF ppl[i].country \in DOMAIN inflow
                          THEN XMul(inflow[ppl[i].country][t], DistKey[i])
                          ELSE Zero]]
    /\ hpc' = "ror"
    /\ UNCHANGED <<ppl, carriers, inflow, hydro_max_hours, hydro_stats,
                   ror_generators, storage_units, warnings, otherThanHydro>>

\* Lines 716-725: the assertion fails when a plant that needs inflow lies in a
\* country the profile has no series for.
HydroMissingInflow ==
    /\ hpc = "start"
    /\ inflow_idx # {}
    /\ missing_c # {}
    /\ dist_key' = DistKey
    /\ hpc' = "error"
    /\ UNCHANGED <<ppl, carriers, inflow, hydro_max_hours, hydro_stats, inflow_t,
                   ror_generators, storage_units, warnings, otherThanHydro>>

\* Lines 715-737: the shares and the inflow of every plant of inflow_idx.
HydroInflow ==
    /\ hpc = "start"
    /\ IF inflow_idx = {}
       THEN UNCHANGED <<dist_key, inflow_t>>
       ELSE /\ missing_c = {}
            /\ dist_key' = DistKey
            /\ inflow_t' = [i \in inflow_idx |->
                              [t \in 1..2 |-> XMul(inflow[ppl[i].country][t], DistKey[i])]]
    /\ hpc' = "ror"
    /\ UNCHANGED <<ppl, carriers, inflow, hydro_max_hours, hydro_stats,
                   ror_generators, storage_units, warnings, otherThanHydro>>

\* .where(lambda df: df <= 1.0, other=1.0)
ClipAtOne(x) == IF RLe(x, One) THEN x ELSE One

\* Lines 739-754: the run-of-river generators.
AttachRor ==
    /\ hpc = "ror"
    /\ IF "ror" \in carriers /\ ror # {}
       THEN ror_generators' =
                [i \in ror |->
                    [carrier |-> "ror", p_nom |-> ppl[i].p_nom,
                     p_max_pu |-> [t \in 1..2 |->
                                      ClipAtOne(RDiv(inflow_t[i][t], ppl[i].p_nom))]]]
       ELSE UNCHANGED ror_generators
    /\ hpc' = "PHS"
    /\ UNCHANGED <<ppl, carriers, inflow, hydro_max_hours, hydro_stats, dist_key, inflow_t,
                   storage_units, warnings, otherThanHydro>>

\* params.get("PHS_max_hours", 6)
PHS_max_hours == Rat(6, 1)

\* The inflow of a storage unit added without one (the component default).
NoInflow == <<Zero, Zero>>

\* Lines 756-772: the pumped-storage units; 0 and NaN max_hours are replaced.
AttachPHS ==
    /\ hpc = "PHS"
    /\ IF "PHS" \in carriers /\ phs # {}
       THEN storage_units' =
                [i \in phs |->
                    [carrier |-> "PHS", p_nom |-> ppl[i].p_nom,
                     max_hours |-> IF IsNaN(ppl[i].max_hours) \/ ppl[i].max_hours = Zero
                                   THEN PHS_max_hours ELSE ppl[i].max_hours,
                     inflow |-> NoInflow]]
       ELSE UNCHANGED storage_units
    /\ hpc' = "hydro"
    /\ UNCHANGED <<ppl, carriers, inflow, hydro_max_hours, hydro_stats, dist_key, inflow_t,
                   ror_generators, warnings, otherThanHydro>>

\* hydro["country"].unique()
HydroCountries == {ppl[i].country : i \in hydro}

\* hydro.query("max_hours.isnull()").index
missing_mh_i == {i \in hydro : IsNaN(ppl[i].max_hours)}

\* hydro_stats["E_store[TWh]"].clip(lower=0.2) * 1e6
e_target(c) ==
    IF c \notin DOMAIN hydro_stats \/ IsNaN(hydro_stats[c].E_store) THEN NaN
    ELSE RMul(IF RLt(hydro_stats[c].E_store, Rat(2, 10)) THEN Rat(2, 10)
              ELSE hydro_stats[c].E_store,
              Rat(1000000, 1))

\* hydro.eval("p_nom * max_hours").groupby(hydro.country).sum()
e_installed(c) ==
    IF c \notin HydroCountries THEN NaN
    ELSE PlantSum({i \in hydro : ppl[i].country = c},
                  [i \in 1..Len(ppl) |-> XMul(ppl[i].p_nom, ppl[i].max_hours)])

\* x - y on aligned series: NaN where either side has no value.
XSub(a, b) == IF IsNaN(a) \/ IsNaN(b) THEN NaN ELSE RSub(a, b)

\* Lines 786-798: the estimator of max_hours by country, clipped at 0; NaN where
\* it gives no value.
max_hours_country(c) ==
    LET value ==
            IF hydro_max_hours = "energy_capacity_totals_by_country"
            THEN IF {i \in missing_mh_i : ppl[i].country = c} = {} THEN NaN
                 ELSE XDiv(XSub(e_target(c), e_installed(c)),
                           PlantSum({i \in missing_mh_i : ppl[i].country = c}, PNomOf))
            ELSE IF c \notin DOMAIN hydro_stats THEN NaN
                 ELSE XDiv(XMul(hydro_stats[c].E_store, Rat(1000, 1)),
                           hydro_stats[c].p_nom_discharge)
    IN  IF ~IsNaN(value) /\ RLt(value, Zero) THEN Zero ELSE value

\* pd.Index(hydro["country"].unique()).difference(max_hours_country.dropna().index)
missing_countries == {c \in HydroCountries : IsNaN(max_hours_country(c))}

\* A plausible slip: the final fillna(6) left out.
HydroMaxHoursNoDefault(i) ==
    IF ~IsNaN(ppl[i].max_hours) /\ RLt(Zero, ppl[i].max_hours) THEN ppl[i].max_hours
    ELSE max_hours_country(ppl[i].country)

\* hydro.max_hours.where(hydro.max_hours > 0, hydro.country.map(max_hours_country)).fillna(6)
HydroMaxHours(i) ==
    IF ~IsNaN(ppl[i].max_hours) /\ RLt(Zero, ppl[i].max_hours) THEN ppl[i].max_hours
    ELSE IF ~IsNaN(max_hours_country(ppl[i].country))
    THEN max_hours_country(ppl[i].country)
    ELSE Rat(6, 1)

\* Lines 774-835: the reservoir units, with the warning about defaulted countries.
AttachHydro ==
    /\ hpc = "hydro"
    /\ IF "hydro" \in carriers /\ hydro # {}
       THEN /\ warnings' = missing_countries
            /\ storage_units' =
                   [i \in hydro |->
                       [carrier |-> "hydro", p_nom |-> ppl[i].p_nom,
                        max_hours |-> HydroMaxHours(i), inflow |-> inflow_t[i]]]
                   @@ storage_units
       ELSE UNCHANGED <<warnings, storage_units>>
    /\ hpc' = "done"
    /\ UNCHANGED <<ppl, carriers, inflow, hydro_max_hours, hydro_stats, dist_key, inflow_t,
                   ror_generators, otherThanHydro>>

NextHydro ==
    \/ HydroMissingInflow
    \/ HydroInflow
    \/ AttachRor
    \/ AttachPHS
    \/ AttachHydro

SpecHydro == InitHydro /\ [][NextHydro]_vars

(***************************************************************************)
(* Properties of the hydro attachment.                                     *)
(***************************************************************************)
\* The statistics give the selected estimator nothing to compute from for c.
NoReportedStatistics(c) ==
    \/ c \notin DOMAIN hydro_stats
    \/ IsNaN(hydro_stats[c].E_store)
    \/ /\ hydro_max_hours = "estimate_by_large_installations"
       /\ IsNaN(hydro_stats[c].p_nom_discharge)

\* C14 (hydro default storage duration): once the reservoir units are added, every
\* reservoir plant whose max_hours is missing and whose country has no reported
\* statistics for the selected estimator has max_hours = 6, and the warning names
\* that country.
C14_HydroDefault ==
    (hpc = "done" /\ "hydro" \in carriers) =>
        \A i \in hydro :
            (IsNaN(ppl[i].max_hours) /\ NoReportedStatistics(ppl[i].country)) =>
                /\ i \in DOMAIN storage_units
                /\ storage_units[i].carrier = "hydro"
                /\ storage_units[i].max_hours = Rat(6, 1)
                /\ ppl[i].country \in warnings

\* C14 witness: reservoir units were added; one plant without max_hours in a
\* country without statistics got 6 hours and its country was warned about, and
\* another plant without max_hours got its country's estimate instead.
C14_Witness ==
    /\ hpc = "done" /\ "hydro" \in carriers
    /\ \E i \in hydro :
          /\ IsNaN(ppl[i].max_hours) /\ NoReportedStatistics(ppl[i].country)
          /\ storage_units[i].max_hours = Rat(6, 1)
          /\ ppl[i].country \in warnings
    /\ \E j \in hydro :
          /\ IsNaN(ppl[j].max_hours) /\ ~NoReportedStatistics(ppl[j].country)
          /\ storage_units[j].max_hours # Rat(6, 1)
          /\ ppl[j].country \notin warnings

\* The plants that take inflow: run-of-river and reservoir.
InflowPlants == {i \in 1..Len(ppl) : ppl[i].technology \in {"Run-Of-River", "Reservoir"}}

InflowPlantsOf(c) == {i \in InflowPlants : ppl[i].country = c}

\* C15 (hydro inflow disaggregation): once the inflow is disaggregated, every
\* run-of-river or reservoir plant has inflow = national inflow of its country x
\* its p_nom / the p_nom sum of the run-of-river and reservoir plants of that
\* country, the plant inflows of a country sum to the national inflow at every
\* timestamp, pumped-storage plants have no inflow and no share, and the units
\* added carry these inflows (none for pumped storage).
C15_InflowShares ==
    hpc \in {"ror", "PHS", "hydro", "done"} =>
        /\ DOMAIN inflow_t = InflowPlants
        /\ DOMAIN dist_key = InflowPlants
        /\ \A i \in InflowPlants : \A t \in 1..2 :
              /\ RMul(inflow_t[i][t], PlantSum(InflowPlantsOf(ppl[i].country), PNomOf))
                    = RMul(inflow[ppl[i].country][t], ppl[i].p_nom)
              /\ inflow_t[i][t] = RMul(inflow[ppl[i].country][t], dist_key[i])
        /\ \A c \in {ppl[i].country : i \in InflowPlants} : \A t \in 1..2 :
              PlantSum(InflowPlantsOf(c), [i \in InflowPlants |-> inflow_t[i][t]])
                  = inflow[c][t]
        /\ \A i \in DOMAIN storage_units :
              storage_units[i].inflow =
                  IF ppl[i].technology = "Pumped Storage" THEN NoInflow ELSE inflow_t[i]

\* C15 witness: a country with a run-of-river, a reservoir and a pumped-storage
\* plant; the first two split a nonzero national inflow unevenly and the units
\* of all three technologies were added.
C15_Witness ==
    /\ hpc = "done"
    /\ \E i \in ror : \E j \in hydro : \E h \in phs :
          /\ ppl[i].country = ppl[j].country /\ ppl[h].country = ppl[i].country
          /\ i \in DOMAIN ror_generators
          /\ j \in DOMAIN storage_units /\ h \in DOMAIN storage_units
          /\ RLt(Zero, inflow_t[i][1]) /\ RLt(inflow_t[i][1], inflow_t[j][1])
          /\ storage_units[j].inflow = inflow_t[j]
          /\ storage_units[h].inflow = NoInflow

\* C16 (missing inflow is fatal): when a run-of-river or reservoir plant lies in
\* a country the inflow profile has no series for, the only step attach_hydro
\* takes is the abort, with no generator and no storage unit added; and an
\* aborted call adds nothing afterwards.
C16_MissingInflowFatal ==
    [][/\ (hpc = "start" /\ \E i \in InflowPlants : ppl[i].country \notin DOMAIN inflow)
            => /\ hpc' = "error"
               /\ ror_generators' = <<>> /\ storage_units' = <<>>
       /\ hpc = "error" => FALSE]_vars

\* C16 witness: the call aborted on a country without inflow series although
\* another country of the plants has one, and nothing was added.
C16_Witness ==
    /\ hpc = "error"
    /\ \E i \in InflowPlants : ppl[i].country \notin DOMAIN inflow
    /\ \E i \in InflowPlants : ppl[i].country \in DOMAIN inflow
    /\ phs = {} /\ "ror" \in carriers /\ "hydro" \in carriers
    /\ ror_generators = <<>> /\ storage_units = <<>>

(***************************************************************************)
(* Renewable capacity estimation: estimate_renewable_capacities.           *)
(***************************************************************************)
MaxEstPNom == 1     \* p_nom of a generator before the estimation: 0 .. MaxEstPNom
MaxReported == 2    \* the largest reported capacity of a technology and country

\* tech_map, in dict order: technology |-> carriers.
tech_map == << <<"Onshore", {"onwind"}>>, <<"PV", {"solar"}>> >>

\* (carrier, country) of the generators, in table order.
EstimateLayouts ==
    { << <<"onwind", "ES">>, <<"onwind", "ES">>, <<"solar", "ES">> >>,
      << <<"onwind", "ES">>, <<"onwind", "PT">>, <<"solar", "PT">> >> }

\* n.generators_t.p_max_pu.mean() of a generator, by position in the table.
MeanPuValues(i) == IF i = 3 THEN {One} ELSE {Rat(1, 2), One}

\* The capacities reported for a technology in ES; PT has 1 MW of each.
ReportedValues(technology) ==
    IF technology = "Onshore" THEN {Zero, Rat(1, 5), Rat(MaxReported, 1)}
    ELSE {Zero, Rat(MaxReported, 1)}

InitEstimate ==
    /\ \E layout \in EstimateLayouts :
          \E p \in [1..3 -> 0..MaxEstPNom], m \in [1..3 -> 1..2],
             u \in [1..3 -> {Rat(1, 2), One}] :
             /\ \A i \in 1..3 : u[i] \in MeanPuValues(i)
             /\ n_generators =
                   [i \in 1..3 |->
                       [carrier |-> layout[i][1], country |-> layout[i][2],
                        p_nom |-> Rat(p[i], 1), p_nom_min |-> Rat(p[i], 1),
                        p_nom_max |-> Rat(m[i], 1), p_max_pu_mean |-> u[i]]]
    /\ \E on \in ReportedValues("Onshore"), pv \in ReportedValues("PV") :
          capacities = [t \in {"Onshore", "PV"} |->
                           [c \in {"ES", "PT"} |->
                               IF c = "PT" THEN One
                               ELSE IF t = "Onshore" THEN on ELSE pv]]
    /\ countries \in {<<>>, <<"ES">>, <<"ES", "PT">>}
    /\ expansion_limit \in {Zero, One, Rat(3, 2)}
    /\ epc = "start"
    /\ ti = 0
    /\ IdleOthers("estimate")

\* Line 888: nothing is done without countries or technologies.
EstimateNothing ==
    /\ epc = "start"
    /\ Len(countries) = 0 \/ Len(tech_map) = 0
    /\ epc' = "done"
    /\ UNCHANGED <<n_generators, capacities, countries, expansion_limit, ti,
                   otherThanEstimate>>

\* Lines 891-902: the reported capacities are read.
EstimateRead ==
    /\ epc = "start"
    /\ Len(countries) # 0 /\ Len(tech_map) # 0
    /\ epc' = "loop"
    /\ UNCHANGED <<n_generators, capacities, countries, expansion_limit, ti,
                   otherThanEstimate>>

\* n.generators.query("carrier in @techs").index
tech_i(techs) == {i \in 1..Len(n_generators) : n_generators[i].carrier \in techs}

\* capacities.loc[ppm_technology].reindex(countries, fill_value=0.0)
stats(technology, c) ==
    IF c \notin Range(countries) THEN NaN
    ELSE IF technology \in DOMAIN capacities /\ c \in DOMAIN capacities[technology]
    THEN capacities[technology][c]
    ELSE Zero

\* n.generators.p_nom[tech_i].groupby(country).sum()
existent(techs, c) ==
    IF \A i \in tech_i(techs) : n_generators[i].country # c THEN NaN
    ELSE PlantSum({i \in tech_i(techs) : n_generators[i].country = c},
                  [i \in 1..Len(n_generators) |-> n_generators[i].p_nom])

\* missing = stats - existent
missing(technology, techs, c) == XSub(stats(technology, c), existent(techs, c))

\* A plausible slip: the heuristic without the mean capacity factor.
dist_by_p_nom_max(i) == n_generators[i].p_nom_max

\* dist = n.generators_t.p_max_pu.mean() * n.generators.p_nom_max
dist(i) == RMul(n_generators[i].p_max_pu_mean, n_generators[i].p_nom_max)

\* A plausible slip: the allocation without the threshold, so that a negative
\* shortfall is shared out too.
AllocationUnclipped(technology, techs, i) ==
    LET c == n_generators[i].country
        group == {j \in tech_i(techs) : n_generators[j].country = c}
        share == XDiv(dist(i), PlantSum(group, [j \in 1..Len(n_generators) |-> dist(j)]))
        s == XMul(share, missing(technology, techs, c))
    IN  IF ~IsNaN(s) THEN s ELSE Zero

\* normed(s) * missing[s.name] within the generator's country, and
\* .where(lambda s: s > 0.1, 0.0): NaN and everything not above 0.1 become 0.
Allocation(technology, techs, i) ==
    LET c == n_generators[i].country
        group == {j \in tech_i(techs) : n_generators[j].country = c}
        share == XDiv(dist(i), PlantSum(group, [j \in 1..Len(n_generators) |-> dist(j)]))
        s == XMul(share, missing(technology, techs, c))
    IN  IF ~IsNaN(s) /\ RLt(Rat(1, 10), s) THEN s ELSE Zero

\* Lines 904-931: one pass of the loop over tech_map.
EstimateTechnology ==
    /\ epc = "loop"
    /\ ti < Len(tech_map)
    /\ LET technology == tech_map[ti + 1][1]
           techs == tech_map[ti + 1][2]
           p_nom_new == [i \in 1..Len(n_generators) |->
                            IF i \in tech_i(techs)
                            THEN RAdd(n_generators[i].p_nom, Allocation(technology, techs, i))
                            ELSE n_generators[i].p_nom]
       IN  n_generators' =
               [i \in 1..Len(n_generators) |->
                   IF i \notin tech_i(techs) THEN n_generators[i]
                   ELSE [n_generators[i] EXCEPT
                            !.p_nom = p_nom_new[i],
                            !.p_nom_min = p_nom_new[i],
                            !.p_nom_max = IF expansion_limit # Zero
                                          THEN RMul(expansion_limit, p_nom_new[i])
                                          ELSE @]]
    /\ ti' = ti + 1
    /\ UNCHANGED <<capacities, countries, expansion_limit, epc, otherThanEstimate>>

\* The loop is over: the function returns.
EstimateReturn ==
    /\ epc = "loop"
    /\ ti = Len(tech_map)
    /\ epc' = "done"
    /\ UNCHANGED <<n_generators, capacities, countries, expansion_limit, ti,
                   otherThanEstimate>>

NextEstimate ==
    \/ EstimateNothing
    \/ EstimateRead
    \/ EstimateTechnology
    \/ EstimateReturn

SpecEstimate == InitEstimate /\ [][NextEstimate]_vars

(***************************************************************************)
(* Properties of the renewable capacity estimation.                        *)
(***************************************************************************)
\* The generators of the technology the next pass of the loop handles.
PassGenerators == {i \in 1..Len(n_generators) : n_generators[i].carrier \in tech_map[ti + 1][2]}

\* The generators of the pass that lie in the country of generator i.
PassGeneratorsOf(i) == {j \in PassGenerators : n_generators[j].country = n_generators[i].country}

\* shortfall x d / (sum of d), for generator i of the pass: shortfall is the
\* reported capacity of its country less the p_nom of the pass generators there,
\* and d is mean(p_max_pu) x p_nom_max.
Share(i) ==
    LET d == [j \in 1..Len(n_generators) |->
                 RMul(n_generators[j].p_max_pu_mean, n_generators[j].p_nom_max)]
        shortfall ==
            RSub(capacities[tech_map[ti + 1][1]][n_generators[i].country],
                 PlantSum(PassGeneratorsOf(i),
                          [j \in 1..Len(n_generators) |-> n_generators[j].p_nom]))
    IN  RDiv(RMul(shortfall, d[i]), PlantSum(PassGeneratorsOf(i), d))

\* A pass of the loop is about to run.
PassPending == epc = "loop" /\ ti < Len(tech_map)

\* C17 as stated: every generator of the technology in a listed country gains
\* shortfall x d / (sum of d), except that gains below 0.1 MW are replaced by
\* zero; a gain of exactly 0.1 MW is kept.
C17_Original ==
    [][PassPending =>
          \A i \in PassGenerators :
              n_generators[i].country \in Range(countries) =>
                  n_generators'[i].p_nom =
                      RAdd(n_generators[i].p_nom,
                           IF RLt(Share(i), Rat(1, 10)) THEN Zero ELSE Share(i))]_vars

\* C17 (renewable shortfall distribution): every generator of the technology in
\* a listed country gains shortfall x d / (sum of d) when that is above 0.1 MW
\* and nothing otherwise (a gain of exactly 0.1 MW is dropped); every other
\* generator keeps its p_nom.
C17_ShortfallDistribution ==
    [][PassPending =>
          \A i \in 1..Len(n_generators) :
              n_generators'[i].p_nom =
                  IF i \in PassGenerators /\ n_generators[i].country \in Range(countries)
                  THEN RAdd(n_generators[i].p_nom,
                            IF RLt(Rat(1, 10), Share(i)) THEN Share(i) ELSE Zero)
                  ELSE n_generators[i].p_nom]_vars

\* C17 witness: after the first pass, two onshore generators of ES with different
\* heuristics hold unequal gains of a shortfall of 2 MW.
C17_Witness ==
    /\ epc = "loop" /\ ti = 1
    /\ countries = <<"ES">>
    /\ capacities["Onshore"]["ES"] = Rat(MaxReported, 1)
    /\ n_generators[1].country = "ES" /\ n_generators[2].country = "ES"
    /\ n_generators[1].p_max_pu_mean # n_generators[2].p_max_pu_mean
    /\ n_generators[1].p_nom_max = n_generators[2].p_nom_max
    /\ RLt(Zero, n_generators[1].p_nom) /\ RLt(n_generators[1].p_nom, n_generators[2].p_nom)
    /\ RAdd(n_generators[1].p_nom, n_generators[2].p_nom) = Rat(MaxReported, 1)
    /\ n_generators[1].p_nom \notin {Rat(v, 1) : v \in 0..MaxReported}

\* C18 (expansion limit): with an expansion limit configured, a pass leaves every
\* generator of the technology with p_nom_max = expansion_limit x its new p_nom,
\* and with a p_nom_max no larger than before; without one, p_nom_max is unchanged.
C18_ExpansionLimit ==
    [][PassPending =>
          \A i \in PassGenerators :
              IF expansion_limit # Zero
              THEN /\ n_generators'[i].p_nom_max =
                          RMul(expansion_limit, n_generators'[i].p_nom)
                   /\ RLe(n_generators'[i].p_nom_max, n_generators[i].p_nom_max)
              ELSE n_generators'[i].p_nom_max = n_generators[i].p_nom_max]_vars

(***************************************************************************)
(* The increase/decrease rule of _update_in_network.                       *)
(***************************************************************************)
\* C20 (increase/decrease rule): the table _update_in_network returns for the
\* candidates of a pair, compared by the real values of the required and the
\* current total: a larger requirement adds (required - current)/N to each p_nom
\* under 'additional' (and under 'proportional' with no current capacity, with a
\* warning) or scales each by required/current; a smaller one scales each by
\* required/current; an equal one changes nothing; unless they are equal the
\* returned p_nom sum is the requirement.
C20_IncreaseDecreaseRule ==
    (PairSelected /\ pc \in {"while", "exit"} /\ n_iter = 0) =>
        LET current == InitialTotal
            N == Len(df_generators_local_cc)
            old == Col(df_generators_local_cc, "p_nom")
            new == Col(df_updated, "p_nom")
            added == [i \in 1..N |->
                        FAdd(old[i], FDiv(FSub(required_capacity, current), FloatOf(N, 1)))]
            scaled == [i \in 1..N |-> FMul(old[i], FDiv(required_capacity, current))]
        IN  /\ FLt(current, required_capacity) =>
                  IF method_increase = "additional" THEN new = added
                  ELSE IF FEq(current, FZero)
                  THEN new = added /\ "warning: no initial capacity" \in printed
                  ELSE new = scaled
            /\ FLt(required_capacity, current) => new = scaled
            /\ FEq(required_capacity, current) => new = old
            /\ ~FEq(required_capacity, current) => FEq(FSum(new), required_capacity)

(***************************************************************************)
(* The order of the components: __main__.                                  *)
(*                                                                         *)
(* A call of main is one step here; what a component does to the network  *)
(* is modelled by its own specification.  A call either returns or raises  *)
(* (an assertion, an exception, sys.exit), and a raise ends the script.    *)
(***************************************************************************)
\* The switches main reads: params["transmission_projects"]["enable"],
\* electricity_demand['enable'], "hydro" in renewable_carriers,
\* estimate_renewable_caps["enable"], params.foresight == "overnight",
\* estimate_renewable_caps["from_opsd"], line_rating_config["activate"],
\* update_elec_capacities['enable'].
Configs ==
    [transmission_projects : BOOLEAN, electricity_demand : BOOLEAN, hydro : BOOLEAN,
     estimate_renewable_capacities : BOOLEAN, overnight : BOOLEAN, from_opsd : BOOLEAN,
     dynamic_line_rating : BOOLEAN, update_elec_capacities : BOOLEAN]

\* The calls of main in program order, each named by the position main is at
\* before it.
MainOrder ==
    << "transmission_projects", "get_snapshots", "load_costs", "load_powerplants", "load",
       "update_transmission_costs", "conventional_generators", "wind_and_solar", "hydro",
       "OPSD_renewables", "estimate", "update_p_nom_max", "line_rating",
       "sanitize_carriers", "update", "export", "end" >>

\* The position after `here` in program order.
Following(here) == MainOrder[(CHOOSE i \in 1..Len(MainOrder) : MainOrder[i] = here) + 1]

InitMain ==
    /\ config \in Configs
    /\ mpc = "transmission_projects"
    /\ calls = <<>>
    /\ raised = FALSE
    /\ exports = 0
    /\ IdleOthers("main")

\* A plausible slip: the exception of a component is swallowed.
AfterCallSwallowed(returns, next) == next

\* Where control is after a call: an exception leaves main.
AfterCall(returns, next) == IF returns THEN next ELSE "raised"

\* Lines 1171-1172
MainTransmissionProjects ==
    /\ mpc = "transmission_projects"
    /\ IF config.transmission_projects
       THEN \E returns \in BOOLEAN :
               /\ calls' = Append(calls, "add_transmission_projects")
               /\ raised' = ~returns
               /\ mpc' = AfterCall(returns, Following("transmission_projects"))
       ELSE /\ mpc' = Following("transmission_projects")
            /\ UNCHANGED <<calls, raised>>
    /\ UNCHANGED <<config, exports, otherThanMain>>

\* Lines 1174-1175
MainSnapshots ==
    /\ mpc = "get_snapshots"
    /\ \E returns \in BOOLEAN :
          /\ calls' = Append(calls, "get_snapshots")
          /\ raised' = ~returns
          /\ mpc' = AfterCall(returns, Following("get_snapshots"))
    /\ UNCHANGED <<config, exports, otherThanMain>>

\* Lines 1179-1184
MainLoadCosts ==
    /\ mpc = "load_costs"
    /\ \E returns \in BOOLEAN :
          /\ calls' = Append(calls, "load_costs")
          /\ raised' = ~returns
          /\ mpc' = AfterCall(returns, Following("load_costs"))
    /\ UNCHANGED <<config, exports, otherThanMain>>

\* Line 1185
MainLoadPowerplants ==
    /\ mpc = "load_powerplants"
    /\ \E returns \in BOOLEAN :
          /\ calls' = Append(calls, "load_powerplants")
          /\ raised' = ~returns
          /\ mpc' = AfterCall(returns, Following("load_powerplants"))
    /\ UNCHANGED <<config, exports, otherThanMain>>

\* The load function main calls (lines 1200-1223).
LoadFunction ==
    IF config.electricity_demand THEN "attach_load_vPyPSA_Spain" ELSE "attach_load"

\* Lines 1200-1223: one of the two load functions.
MainAttachLoad ==
    /\ mpc = "load"
    /\ \E returns \in BOOLEAN :
          /\ calls' = Append(calls, LoadFunction)
          /\ raised' = ~returns
          /\ mpc' = AfterCall(returns, Following("load"))
    /\ UNCHANGED <<config, exports, otherThanMain>>

\* Line 1230
MainUpdateTransmissionCosts ==
    /\ mpc = "update_transmission_costs"
    /\ \E returns \in BOOLEAN :
          /\ calls' = Append(calls, "update_transmission_costs")
          /\ raised' = ~returns
          /\ mpc' = AfterCall(returns, Following("update_transmission_costs"))
    /\ UNCHANGED <<config, exports, otherThanMain>>

\* Lines 1252-1262
MainAttachConventionalGenerators ==
    /\ mpc = "conventional_generators"
    /\ \E returns \in BOOLEAN :
          /\ calls' = Append(calls, "attach_conventional_generators")
          /\ raised' = ~returns
          /\ mpc' = AfterCall(returns, Following("conventional_generators"))
    /\ UNCHANGED <<config, exports, otherThanMain>>

\* Lines 1264-1271
MainAttachWindAndSolar ==
    /\ mpc = "wind_and_solar"
    /\ \E returns \in BOOLEAN :
          /\ calls' = Append(calls, "attach_wind_and_solar")
          /\ raised' = ~returns
          /\ mpc' = AfterCall(returns, Following("wind_and_solar"))
    /\ UNCHANGED <<config, exports, otherThanMain>>

\* Lines 1273-1284
MainAttachHydro ==
    /\ mpc = "hydro"
    /\ IF config.hydro
       THEN \E returns \in BOOLEAN :
               /\ calls' = Append(calls, "attach_hydro")
               /\ raised' = ~returns
               /\ mpc' = AfterCall(returns, Following("hydro"))
       ELSE /\ mpc' = Following("hydro")
            /\ UNCHANGED <<calls, raised>>
    /\ UNCHANGED <<config, exports, otherThanMain>>

\* Lines 1286-1293: the estimation is skipped unless it is enabled and the
\* foresight is 'overnight'.
Estimating == config.estimate_renewable_capacities /\ config.overnight

\* Lines 1298-1299
MainAttachOPSDRenewables ==
    /\ mpc = "OPSD_renewables"
    /\ IF Estimating /\ config.from_opsd
       THEN \E returns \in BOOLEAN :
               /\ calls' = Append(calls, "attach_OPSD_renewables")
               /\ raised' = ~returns
               /\ mpc' = AfterCall(returns, Following("OPSD_renewables"))
       ELSE /\ mpc' = Following("OPSD_renewables")
            /\ UNCHANGED <<calls, raised>>
    /\ UNCHANGED <<config, exports, otherThanMain>>

\* Lines 1301-1303
MainEstimate ==
    /\ mpc = "estimate"
    /\ IF Estimating
       THEN \E returns \in BOOLEAN :
               /\ calls' = Append(calls, "estimate_renewable_capacities")
               /\ raised' = ~returns
               /\ mpc' = AfterCall(returns, Following("estimate"))
       ELSE /\ mpc' = Following("estimate")
            /\ UNCHANGED <<calls, raised>>
    /\ UNCHANGED <<config, exports, otherThanMain>>

\* Line 1305
MainUpdatePNomMax ==
    /\ mpc = "update_p_nom_max"
    /\ \E returns \in BOOLEAN :
          /\ calls' = Append(calls, "update_p_nom_max")
          /\ raised' = ~returns
          /\ mpc' = AfterCall(returns, Following("update_p_nom_max"))
    /\ UNCHANGED <<config, exports, otherThanMain>>

\* Lines 1307-1322
MainAttachLineRating ==
    /\ mpc = "line_rating"
    /\ IF config.dynamic_line_rating
       THEN \E returns \in BOOLEAN :
               /\ calls' = Append(calls, "attach_line_rating")
               /\ raised' = ~returns
               /\ mpc' = AfterCall(returns, Following("line_rating"))
       ELSE /\ mpc' = Following("line_rating")
            /\ UNCHANGED <<calls, raised>>
    /\ UNCHANGED <<config, exports, otherThanMain>>

\* Line 1324
MainSanitizeCarriers ==
    /\ mpc = "sanitize_carriers"
    /\ \E returns \in BOOLEAN :
          /\ calls' = Append(calls, "sanitize_carriers")
          /\ raised' = ~returns
          /\ mpc' = AfterCall(returns, Following("sanitize_carriers"))
    /\ UNCHANGED <<config, exports, otherThanMain>>

\* Lines 1347-1348
MainUpdateCapacities ==
    /\ mpc = "update"
    /\ IF config.update_elec_capacities
       THEN \E returns \in BOOLEAN :
               /\ calls' = Append(calls, "fun_update_elec_capacities")
               /\ raised' = ~returns
               /\ mpc' = AfterCall(returns, Following("update"))
       ELSE /\ mpc' = Following("update")
            /\ UNCHANGED <<calls, raised>>
    /\ UNCHANGED <<config, exports, otherThanMain>>

\* Line 1355
MainExport ==
    /\ mpc = "export"
    /\ exports' = exports + 1
    /\ mpc' = "end"
    /\ UNCHANGED <<config, calls, raised, otherThanMain>>

NextMain ==
    \/ MainTransmissionProjects
    \/ MainSnapshots
    \/ MainLoadCosts
    \/ MainLoadPowerplants
    \/ MainAttachLoad
    \/ MainUpdateTransmissionCosts
    \/ MainAttachConventionalGenerators
    \/ MainAttachWindAndSolar
    \/ MainAttachHydro
    \/ MainAttachOPSDRenewables
    \/ MainEstimate
    \/ MainUpdatePNomMax
    \/ MainAttachLineRating
    \/ MainSanitizeCarriers
    \/ MainUpdateCapacities
    \/ MainExport

SpecMain == InitMain /\ [][NextMain]_vars

\* The place of a component in the fixed order.
Rank(component) ==
    CASE component = "add_transmission_projects" -> 0
      [] component \in {"attach_load", "attach_load_vPyPSA_Spain"} -> 1
      [] component = "attach_hydro" -> 2
      [] component = "estimate_renewable_capacities" -> 3
      [] component = "fun_update_elec_capacities" -> 4

\* The components: the functions of the pipeline the ordering is about.
Components ==
    {"add_transmission_projects", "attach_load", "attach_load_vPyPSA_Spain", "attach_hydro",
     "estimate_renewable_capacities", "fun_update_elec_capacities"}

\* The calls of components made so far, in order.
component_calls == SelectSeq(calls, LAMBDA c : c \in Components)

\* The components the configuration enables.
Enabled ==
    {IF config.electricity_demand THEN "attach_load_vPyPSA_Spain" ELSE "attach_load"}
    \cup (IF config.transmission_projects THEN {"add_transmission_projects"} ELSE {})
    \cup (IF config.hydro THEN {"attach_hydro"} ELSE {})
    \cup (IF config.estimate_renewable_capacities /\ config.overnight
          THEN {"estimate_renewable_capacities"} ELSE {})
    \cup (IF config.update_elec_capacities THEN {"fun_update_elec_capacities"} ELSE {})

\* Main is past the load function.
PastLoad ==
    \E i, j \in 1..Len(MainOrder) : MainOrder[i] = "load" /\ MainOrder[j] = mpc /\ i < j

\* C19 (pipeline ordering): the components called are enabled ones, each called
\* at most once and in the order load -> hydro -> estimation -> reconciliation,
\* with exactly one of the two load functions; the network is exported at most
\* once, only after every enabled component has been called and returned, never
\* after a call of main raised, and a run that reaches its end has exported once.
C19_PipelineOrdering ==
    /\ \A i \in 1..Len(component_calls) :
          /\ component_calls[i] \in Enabled
          /\ \A j \in 1..Len(component_calls) :
                i < j => Rank(component_calls[i]) < Rank(component_calls[j])
    /\ PastLoad =>
          Cardinality({i \in 1..Len(component_calls) : Rank(component_calls[i]) = 1}) = 1
    /\ exports <= 1
    /\ exports = 1 => /\ ~raised
                      /\ mpc = "end"
                      /\ Enabled = {component_calls[i] : i \in 1..Len(component_calls)}
    /\ mpc = "end" => exports = 1
    /\ raised => mpc = "raised"

\* C19 witness: every component is enabled, all four were called in order after
\* the regional load function, with the calls main makes between them (the OPSD
\* capacities before the estimation among them), and the network was exported.
C19_Witness ==
    /\ mpc = "end" /\ exports = 1 /\ ~raised
    /\ config.hydro /\ config.update_elec_capacities /\ config.electricity_demand
    /\ config.from_opsd
    /\ \E n \in 1..Len(component_calls) :
          /\ n + 3 = Len(component_calls)
          /\ component_calls[n] = "attach_load_vPyPSA_Spain"
          /\ component_calls[n + 1] = "attach_hydro"
          /\ component_calls[n + 2] = "estimate_renewable_capacities"
          /\ component_calls[n + 3] = "fun_update_elec_capacities"
    /\ \E i \in 1..Len(calls) - 1 :
          /\ calls[i] = "attach_OPSD_renewables"
          /\ calls[i + 1] = "estimate_renewable_capacities"

(***************************************************************************)
(* Properties of the overflow repair loop, the candidate selection and the *)
(* write-back of fun_update_elec_capacities.                               *)
(***************************************************************************)
\* The candidates whose current (rescaled) p_nom exceeds their p_nom_max, by position.
Overflowing ==
    {i \in 1..Len(df_updated) : FLt(df_updated[i].p_nom_max, df_updated[i].p_nom)}

\* The total p_nom of the adjustable generators other than the one called name.
AdjustableTotalWithout(name) ==
    FSum(Col(SelectSeq(df_to_sanitise, LAMBDA r : r.name # name), "p_nom"))

\* C21 (as claimed): in every iteration of the overflow repair loop the
\* generator clamped is the first one in table order whose current p_nom
\* exceeds its p_nom_max; its p_nom is set to its p_nom_max, it leaves the
\* adjustable set (to which it belonged, so it is never selected twice), and
\* the remaining adjustable generators are rescaled to their current total
\* plus the removed overflow.
C21_OverflowSelection ==
    [][(pc = "while" /\ AnyOverflow(df_updated))
          => LET i == Min(Overflowing)
                 name == df_updated[i].name
                 overflow == FSub(df_updated[i].p_nom, df_updated[i].p_nom_max)
             IN  /\ pc' = "while"
                 /\ df_updated'[i].p_nom = df_updated[i].p_nom_max
                 /\ name \in Names(df_to_sanitise)
                 /\ name \notin Names(df_to_sanitise')
                 /\ required_capacity' = FAdd(AdjustableTotalWithout(name), overflow)]_vars

\* The pair (carrier, region) the loops took last.
LastPair == Pairs[k]

\* The pair taken last was looked up in the generator table, which has not been
\* written to since.
Selected == k > 0 /\ pc \in {"warned", "while", "exit", "error"}

\* The generators of the last pair's carrier inside its region, and those of them
\* above the materiality floor of 0.01.
InsideRegion == InRegion(LastPair[1], LastPair[2])
Material == {i \in InsideRegion : FLt(FloatOf(1, 100), generators[i].p_nom)}

\* C22: for every (region, carrier) pair the candidates are exactly the
\* generators of the carrier on buses inside the region with p_nom > 0.01 when
\* there is one, and otherwise all generators of the carrier on buses inside
\* the region; a generator of another carrier or outside the region is never a
\* candidate.  The candidates are in table order, with the attributes the
\* table holds.
C22_CandidateSelection ==
    Selected
        => /\ Names(df_generators_local_cc) = (IF Material # {} THEN Material ELSE InsideRegion)
           /\ \A i \in 1..Len(df_generators_local_cc) :
                 /\ df_generators_local_cc[i].p_nom = generators[df_generators_local_cc[i].name].p_nom
                 /\ df_generators_local_cc[i].carrier = LastPair[1]
                 /\ BusRegion[df_generators_local_cc[i].bus] = LastPair[2]
                 /\ \A j \in 1..(i - 1) :
                       df_generators_local_cc[j].name < df_generators_local_cc[i].name

\* C22 witness: a pair was selected whose region holds a generator of the
\* carrier with p_nom of exactly 0.01 that is no candidate, next to one above the
\* floor that is.
C22_Witness ==
    /\ Selected /\ pc = "while"
    /\ \E i \in InsideRegion :
          FEq(generators[i].p_nom, FloatOf(1, 100)) /\ i \notin Names(df_generators_local_cc)
    /\ Names(df_generators_local_cc) # {}

\* The fallback of line 1079 was taken: no generator of the pair is above the
\* floor, and all of them are candidates.
C22_FallbackTaken ==
    /\ Selected /\ pc = "while"
    /\ Material = {}
    /\ Cardinality(InsideRegion) > 1
    /\ Names(df_generators_local_cc) = InsideRegion

\* C23: processing a (region, carrier) pair changes only the p_nom of that
\* pair's candidates, and only at the write-back: no step of
\* fun_update_elec_capacities changes the p_nom_min, the p_nom_max, the bus or
\* the carrier of a generator, any attribute of a non-candidate, or the set of
\* generator records.
C23_ReconcilerFrame ==
    [][/\ Len(generators') = Len(generators)
       /\ \A i \in 1..Len(generators) :
             /\ generators'[i].bus = generators[i].bus
             /\ generators'[i].carrier = generators[i].carrier
             /\ generators'[i].p_nom_min = generators[i].p_nom_min
             /\ generators'[i].p_nom_max = generators[i].p_nom_max
             /\ generators'[i].p_nom # generators[i].p_nom
                   => /\ pc = "while" /\ pc' = "written"
                      /\ i \in Names(df_generators_local_cc)
                      /\ generators[i].carrier = LastPair[1]
                      /\ BusRegion[generators[i].bus] = LastPair[2]]_vars

\* C23 witness: a pair was written back with a changed p_nom for a candidate,
\* whose p_nom_min stays at the old p_nom, while the table holds a generator that
\* is no candidate of the pair.
C23_Witness ==
    /\ PairSelected /\ pc = "written"
    /\ \E i \in 1..Len(df_generators_local_cc) :
          /\ NetworkPNom[i] # df_generators_local_cc[i].p_nom
          /\ generators[df_generators_local_cc[i].name].p_nom_min
                = df_generators_local_cc[i].p_nom
    /\ \E i \in 1..Len(generators) : i \notin Names(df_generators_local_cc)

(***************************************************************************)
(* The estimator never removes capacity.                                   *)
(***************************************************************************)
\* The generators of a technology of tech_map.
Mapped ==
    {i \in 1..Len(n_generators) :
        \E t \in 1..Len(tech_map) : n_generators[i].carrier \in tech_map[t][2]}

\* The p_nom of the generators of a technology in a country exceeds the capacity
\* reported for it: the shortfall is negative.
NegativeShortfall(t, c) ==
    RLt(capacities[tech_map[t][1]][c],
        PlantSum({i \in 1..Len(n_generators) :
                     n_generators[i].carrier \in tech_map[t][2] /\ n_generators[i].country = c},
                 [i \in 1..Len(n_generators) |-> n_generators[i].p_nom]))

\* C24: no step of estimate_renewable_capacities lowers the p_nom of a generator
\* of a mapped technology, also when the capacity reported for its country is
\* below the modelled one; and when the call returns, p_nom_min equals p_nom for
\* every such generator.
C24_NeverRemovesCapacity ==
    [][/\ \A i \in Mapped : RLe(n_generators[i].p_nom, n_generators'[i].p_nom)
       /\ epc' = "done"
             => \A i \in Mapped : n_generators'[i].p_nom_min = n_generators'[i].p_nom]_vars

\* C24 witness: the call has returned after both passes; the onshore generators
\* of ES, a listed country, still hold more than the capacity reported (their
\* shortfall was negative), and another generator was raised above every initial
\* p_nom with its p_nom_min following.
C24_Witness ==
    /\ epc = "done" /\ ti = Len(tech_map)
    /\ "ES" \in Range(countries)
    /\ NegativeShortfall(1, "ES")
    /\ \E i \in Mapped :
          /\ RLt(Rat(MaxEstPNom, 1), n_generators[i].p_nom)
          /\ n_generators[i].p_nom_min = n_generators[i].p_nom

(***************************************************************************)
(* Transmission projects: add_transmission_projects.                       *)
(*                                                                         *)
(* A table (n.buses, n.lines, n.links, or the table read from a project    *)
(* file) is a function from component names to rows, a row being a record  *)
(* of attributes.  Component names are numbers.  path.name is modelled by   *)
(* the stem of the file name, which is the key the code looks for.         *)
(***************************************************************************)
MaxProjects == 2    \* the largest number of project files in transmission_projects

ProjectNames == {"new_buses", "new_lines", "new_links", "adjust_lines", "adjust_links"}

\* The tables of the network before the projects are added.
InitialBuses == [i \in {1} |-> [v_nom |-> 1]]
InitialLines == [i \in {1, 2} |-> [s_nom |-> 1, length |-> 1]]
InitialLinks == [i \in {1, 3} |-> [p_nom |-> 1, length |-> 1]]

\* The name of the component the file at position p of the list introduces.
NewName(p) == 10 + p

\* A table of one row.
OneRow(name, row) == [i \in {name} |-> row]

\* pd.read_csv(path, index_col=0): the tables the file called name can hold at
\* position p of the list.  A file of adjustments names a component the network
\* has; the links 1 and 3 exist, and 1 is the name of a line as well.
FileTables(name, p) ==
    {<<>>} \cup
    CASE name = "new_buses" -> {OneRow(NewName(p), [v_nom |-> 2])}
      [] name = "new_lines" -> {OneRow(NewName(p), [s_nom |-> 2, length |-> 2])}
      [] name = "new_links" -> {OneRow(NewName(p), [p_nom |-> 2, length |-> 2])}
      [] name = "adjust_lines" -> {OneRow(1, [s_nom |-> 2]), OneRow(2, [length |-> 2])}
      [] name = "adjust_links" -> {OneRow(1, [p_nom |-> 2]), OneRow(1, [length |-> 2]),
                                   OneRow(3, [length |-> 2])}

InitProjects ==
    /\ \E n \in 0..MaxProjects :
          \E names \in [1..n -> ProjectNames] :
             \E dfs \in [1..n -> UNION {FileTables(nm, p) : nm \in ProjectNames, p \in 1..n}] :
                /\ \A p \in 1..n : dfs[p] \in FileTables(names[p], p)
                /\ transmission_projects = [p \in 1..n |-> [name |-> names[p], df |-> dfs[p]]]
    /\ buses = InitialBuses
    /\ lines = InitialLines
    /\ links = InitialLinks
    /\ tpc = "for"
    /\ path_i = 0
    /\ IdleOthers("projects")

\* The file the for loop takes next.
path == transmission_projects[path_i + 1]
AtProject == tpc = "for" /\ path_i < Len(transmission_projects)

\* key in path.name
InName(key) == path.name = key

\* n.madd(component, df.index, **df): the rows of df join the table.
madd(table, df) ==
    [i \in (DOMAIN table) \cup (DOMAIN df) |-> IF i \in DOMAIN df THEN df[i] ELSE table[i]]

\* table.update(df): the values of df replace those of the table for the names
\* and the attributes that both hold.
update(table, df) ==
    [i \in DOMAIN table |->
        IF i \in DOMAIN df
        THEN [a \in DOMAIN table[i] |->
                 IF a \in DOMAIN df[i] THEN df[i][a] ELSE table[i][a]]
        ELSE table[i]]

\* Lines 963-964: an empty file is passed over.
ProjectEmpty ==
    /\ AtProject
    /\ path.df = <<>>
    /\ path_i' = path_i + 1
    /\ UNCHANGED <<transmission_projects, buses, lines, links, tpc, otherThanProjects>>

\* Lines 965-966.
ProjectNewBuses ==
    /\ AtProject
    /\ path.df # <<>>
    /\ InName("new_buses")
    /\ buses' = madd(buses, path.df)
    /\ path_i' = path_i + 1
    /\ UNCHANGED <<transmission_projects, lines, links, tpc, otherThanProjects>>

\* Lines 967-968.
ProjectNewLines ==
    /\ AtProject
    /\ path.df # <<>>
    /\ ~InName("new_buses") /\ InName("new_lines")
    /\ lines' = madd(lines, path.df)
    /\ path_i' = path_i + 1
    /\ UNCHANGED <<transmission_projects, buses, links, tpc, otherThanProjects>>

\* Lines 969-970.
ProjectNewLinks ==
    /\ AtProject
    /\ path.df # <<>>
    /\ ~InName("new_buses") /\ ~InName("new_lines") /\ InName("new_links")
    /\ links' = madd(links, path.df)
    /\ path_i' = path_i + 1
    /\ UNCHANGED <<transmission_projects, buses, lines, tpc, otherThanProjects>>

\* Lines 971-972: the condition is the string "adjust_lines" itself, which is
\* true, so every other file that is not empty is applied to n.lines; the branch
\* of lines 973-974 cannot be taken.
ProjectAdjustLines ==
    /\ AtProject
    /\ path.df # <<>>
    /\ ~InName("new_buses") /\ ~InName("new_lines") /\ ~InName("new_links")
    /\ lines' = update(lines, path.df)
    /\ path_i' = path_i + 1
    /\ UNCHANGED <<transmission_projects, buses, links, tpc, otherThanProjects>>

\* The list is exhausted: add_transmission_projects returns.
ProjectsReturn ==
    /\ tpc = "for"
    /\ path_i = Len(transmission_projects)
    /\ tpc' = "returned"
    /\ UNCHANGED <<transmission_projects, buses, lines, links, path_i, otherThanProjects>>

NextProjects ==
    \/ ProjectEmpty
    \/ ProjectNewBuses
    \/ ProjectNewLines
    \/ ProjectNewLinks
    \/ ProjectAdjustLines
    \/ ProjectsReturn

SpecProjects == InitProjects /\ [][NextProjects]_vars

(***************************************************************************)
(* Properties of add_transmission_projects.                                *)
(***************************************************************************)
\* C25 (as claimed): every project file that is not empty is applied to exactly
\* one target chosen by its name: new_buses adds buses, new_lines adds lines,
\* new_links adds links, adjust_lines updates existing lines, adjust_links
\* updates existing links and leaves the line table unchanged; an empty file
\* changes nothing.
C25_ProjectDispatch ==
    [][AtProject =>
          LET name == path.name
              df == path.df
          IN  /\ buses' = IF df # <<>> /\ name = "new_buses" THEN madd(buses, df) ELSE buses
              /\ lines' = IF df # <<>> /\ name = "new_lines" THEN madd(lines, df)
                          ELSE IF df # <<>> /\ name = "adjust_lines" THEN update(lines, df)
                          ELSE lines
              /\ links' = IF df # <<>> /\ name = "new_links" THEN madd(links, df)
                          ELSE IF df # <<>> /\ name = "adjust_links" THEN update(links, df)
                          ELSE links]_vars

=============================================================================
